---- MODULE Spec2Model ----
(***************************************************************************)
(* A model of the execution core of the workflows engine: the State /      *)
(* Results transition machine (computations/state.py), the Engine and its  *)
(* ComputationExecutor (computations/engine.py) driving a JobTracker       *)
(* (computations/jobs.py), and the per-workflow lock of MemoryStorage      *)
(* (computations/storage.py).                                              *)
(*                                                                         *)
(* Three state machines share this module, each with its own               *)
(* specification:                                                          *)
(*   SpecResults / SpecResultsAny  the Results factory and StoredInfo      *)
(*   SpecEngine                    Engine.run, re-entered through the      *)
(*                                 executor                                *)
(*   SpecLock                      threads in hold_workflow_lock           *)
(***************************************************************************)
EXTENDS Integers, Sequences, FiniteSets, TLC

VARIABLES
    \* ---- Results machine ----
    original_state,   \* Results._original_state
    result,           \* the last Result produced, or NoResult
    last_call,        \* the Results method and arguments that produced it
    stored_info,      \* the persisted StoredInfo of the computation
    \* ---- Engine machine ----
    start_jobs,       \* JobTracker._start_jobs : path -> JobStatus
    added_jobs,       \* JobTracker._added_jobs : path -> JobStatus
    stack,            \* active Engine.run frames, outermost first
    last_run,         \* summary of the Engine.run call that finished last
    runs_started,     \* number of Engine.run calls made so far
    executor_call,    \* the executor call an execute made last, and what it did
    \* ---- MemoryStorage lock machine ----
    _locks,           \* MemoryStorage._locks : identifier -> lock object
    lock_owner,       \* lock object -> thread holding it, or NoThread
    locks_created,    \* number of threading.Lock() objects created so far
    thread_pc,        \* thread -> position inside hold_workflow_lock
    thread_ident,     \* thread -> identifier passed to hold_workflow_lock
    thread_lock,      \* thread -> lock object it entered `with` on
    thread_seen,      \* thread -> value of self._locks.get(identifier), line 109
    thread_outcome,   \* thread -> how its last hold_workflow_lock call ended
    calls_started,    \* number of hold_workflow_lock calls made so far
    holders_at_call,  \* thread -> threads inside the scope of the same
                      \*           identifier since this thread's call began
    \* ---- State.clone / StoredInfo.merge applied to one stored computation ----
    fn_stored,        \* the StoredInfo kept for one path
    fn_call,          \* the last call of clone or merge and its arguments
    fn_out,           \* the State that call returned
    \* ---- JobTracker over JobStatus objects ----
    statuses,         \* heap of JobStatus objects, an object is its index
    given_start,      \* the start statuses as the tracker was constructed with
    start_refs,       \* JobTracker._start_jobs : path -> object
    added_refs,       \* JobTracker._added_jobs : path -> object
    appends_made,     \* number of add_execution calls made so far
    tracker_call,     \* the last call on the tracker or a status, and its result
    \* ---- MemoryStorage workflows and computations ----
    _workflows,       \* MemoryStorage._workflows : identifier -> WorkflowInformation
    _computations,    \* MemoryStorage._computations : identifier -> path -> StoredInfo
    identifiers_made, \* the strings _new_identifier_str has returned
    stored_under,     \* the identifiers a workflow was stored under
    last_listed,      \* identifier -> path -> StoredInfo of the last upsert listing it
    storage_call,     \* the last call of a storage method, and its result
    \* ---- a Job and its ComputationState ----
    examined_job,     \* the Job whose properties are read
    job_call,         \* the last property read or path made, and the result
    \* ---- threads inside MemoryStorage.upsert_computations ----
    upsert_thread,    \* thread -> its position in upsert_computations and its locals
    computation_dicts, \* heap of the dict objects held in _computations, by index
    \* ---- the ComputationFuture objects of a workflow ----
    future,           \* name -> the attributes of the ComputationFuture of that name
    state_resolved,   \* name -> result_state engine.resolve_state last gave it
    future_call       \* the last call of a future's method, and its result

results_vars == <<original_state, result, last_call, stored_info>>
engine_vars  == <<start_jobs, added_jobs, stack, last_run, runs_started, executor_call>>
fn_vars      == <<fn_stored, fn_call, fn_out>>
tracker_vars == <<statuses, given_start, start_refs, added_refs, appends_made, tracker_call>>
storage_vars == <<_workflows, _computations, identifiers_made, stored_under, last_listed,
                  storage_call>>
job_vars     == <<examined_job, job_call>>
upsert_vars  == <<upsert_thread, computation_dicts>>
future_vars  == <<future, state_resolved, future_call>>
lock_vars    == <<_locks, lock_owner, locks_created, thread_pc, thread_ident,
                  thread_lock, thread_seen, thread_outcome, calls_started,
                  holders_at_call>>
vars == <<original_state, result, last_call, stored_info,
          start_jobs, added_jobs, stack, last_run, runs_started, executor_call,
          _locks, lock_owner, locks_created, thread_pc, thread_ident,
          thread_lock, thread_seen, thread_outcome, calls_started,
          holders_at_call, fn_stored, fn_call, fn_out,
          statuses, given_start, start_refs, added_refs, appends_made, tracker_call,
          _workflows, _computations, identifiers_made, stored_under, last_listed,
          storage_call, examined_job, job_call, upsert_thread, computation_dicts,
          future, state_resolved, future_call>>

(***************************************************************************)
(* Bounds                                                                  *)
(***************************************************************************)
\* instants are 1..MaxInstant
MaxInstant == 1
\* Engine.run calls per behaviour
MaxRuns == 2
\* length of the longest job path
MaxDepth == 2
\* threads using the storage
NumThreads == 2
\* hold_workflow_lock calls per behaviour
MaxCalls == 3
\* threading.Lock() objects created per behaviour
MaxLockObjects == 2
\* JobStatus objects per behaviour
MaxStatuses == 3
\* add_execution calls per behaviour
MaxAppends == 2
\* characters in the longest name tried for a path
MaxNameLen == 2

(***************************************************************************)
(* Values                                                                  *)
(***************************************************************************)
\* protocols.ExecutionState
PENDING == "PENDING"
PROGRESSING == "PROGRESSING"
CANCELLING == "CANCELLING"
PAUSED == "PAUSED"
STOPPED == "STOPPED"
ExecutionState == {PENDING, PROGRESSING, CANCELLING, PAUSED, STOPPED}

\* protocols.ResultState
ABSENT == "ABSENT"
SUCCESS == "SUCCESS"
CANCELLED == "CANCELLED"
HANDLED_FAILURE == "HANDLED_FAILURE"
UNHANDLED_FAILURE == "UNHANDLED_FAILURE"
ResultState == {ABSENT, SUCCESS, CANCELLED, HANDLED_FAILURE, UNHANDLED_FAILURE}

\* protocols._NotGiven, for enum-valued arguments
NotGivenEnum == "NotGiven"

\* protocols.ScheduleBy = datetime | timedelta | None | NotGiven
NotGiven == [kind |-> "NotGiven", v |-> 0]
Null == [kind |-> "None", v |-> 0]
Instant(n) == [kind |-> "instant", v |-> n]
Duration(n) == [kind |-> "duration", v |-> n]
Instants == {Instant(n) : n \in 1..MaxInstant}
\* a zero-length timedelta, the one timedelta that is falsy
Durations == {Duration(0)}
StateHints == {Null} \cup Instants \cup Durations
ScheduleBy == {NotGiven} \cup StateHints

\* Exceptions raised by user code, identified by their str()
Exceptions == {"boom", "bang"}

\* ErrorRaw / Error values.  kind "raw" is an ErrorRaw, kind "resolved" an
\* Error (it has as_exception), kind "None" is Python's None.
NoError == [kind |-> "None", format_code |-> "", serialized |-> ""]
NotGivenError == [kind |-> "NotGiven", format_code |-> "", serialized |-> ""]
ErrorRaw(code, ser) == [kind |-> "raw", format_code |-> code, serialized |-> ser]
Error(code, ser) == [kind |-> "resolved", format_code |-> code, serialized |-> ser]
FormatCodes == {"simple", "custom"}
RawErrors == {ErrorRaw(c, s) : c \in FormatCodes, s \in Exceptions}
ResolvedErrors == {Error(c, s) : c \in FormatCodes, s \in Exceptions}

\* state.SimpleError.serialize
SimpleError_serialize(exc) == Error("simple", exc)

(***************************************************************************)
(* State                                                                   *)
(***************************************************************************)
State(error, execution_state, result_state, created_at, due_at, schedule_next_latest_at) ==
    [error |-> error,
     execution_state |-> execution_state,
     result_state |-> result_state,
     created_at |-> created_at,
     due_at |-> due_at,
     schedule_next_latest_at |-> schedule_next_latest_at]

\* State.fresh, with utcnow() = now
fresh(now) == State(NoError, PENDING, ABSENT, now, Null, Null)

\* clone that takes an explicit null hint or error for an omitted one
clone_null_is_omitted(self, error, execution_state, result_state, due_at, schedule_next_latest_at) ==
    State(IF error.kind \in {"NotGiven", "None"} THEN self.error ELSE error,
          IF execution_state = NotGivenEnum THEN self.execution_state ELSE execution_state,
          IF result_state = NotGivenEnum THEN self.result_state ELSE result_state,
          self.created_at,
          IF due_at.kind \in {"NotGiven", "None"} THEN self.due_at ELSE due_at,
          IF schedule_next_latest_at.kind \in {"NotGiven", "None"}
              THEN self.schedule_next_latest_at ELSE schedule_next_latest_at)

\* State.clone
clone(self, error, execution_state, result_state, due_at, schedule_next_latest_at) ==
    State(IF error.kind = "NotGiven" THEN self.error ELSE error,
          IF execution_state = NotGivenEnum THEN self.execution_state ELSE execution_state,
          IF result_state = NotGivenEnum THEN self.result_state ELSE result_state,
          self.created_at,
          IF due_at.kind = "NotGiven" THEN self.due_at ELSE due_at,
          IF schedule_next_latest_at.kind = "NotGiven"
              THEN self.schedule_next_latest_at ELSE schedule_next_latest_at)

(***************************************************************************)
(* Result and Results                                                      *)
(***************************************************************************)
Result(state, audit_message, due_at, schedule_next_latest_at) ==
    [state |-> state,
     audit_message |-> audit_message,
     due_at |-> due_at,
     schedule_next_latest_at |-> schedule_next_latest_at]

\* Python truthiness of a datetime | timedelta | None: None and a zero-length
\* timedelta are falsy, every datetime is truthy.
Truthy(hint) ==
    CASE hint.kind = "None" -> FALSE
      [] hint.kind = "duration" -> hint.v # 0
      [] OTHER -> TRUE

\* Results.no_change
no_change(self, audit_message, due_at, schedule_next_latest_at) ==
    Result(clone(self, NotGivenError, NotGivenEnum, NotGivenEnum, NotGiven, NotGiven),
           audit_message,
           IF due_at.kind = "NotGiven" /\ Truthy(self.due_at)
               THEN self.due_at ELSE due_at,
           IF schedule_next_latest_at.kind = "NotGiven" /\ Truthy(self.schedule_next_latest_at)
               THEN self.schedule_next_latest_at ELSE schedule_next_latest_at)

\* pending that carries the state's hints forward the way no_change does
pending_carries_hints(self, audit_message, due_at, schedule_next_latest_at) ==
    Result(clone(self, NoError, PENDING, ABSENT, NotGiven, NotGiven),
           audit_message,
           IF due_at.kind = "NotGiven" /\ Truthy(self.due_at) THEN self.due_at ELSE due_at,
           IF schedule_next_latest_at.kind = "NotGiven" /\ Truthy(self.schedule_next_latest_at)
               THEN self.schedule_next_latest_at ELSE schedule_next_latest_at)

\* Results.pending
pending(self, audit_message, due_at, schedule_next_latest_at) ==
    Result(clone(self, NoError, PENDING, ABSENT, NotGiven, NotGiven),
           audit_message, due_at, schedule_next_latest_at)

\* Results.progressing
progressing(self, audit_message, due_at, schedule_next_latest_at) ==
    Result(clone(self, NoError, PROGRESSING, ABSENT, NotGiven, NotGiven),
           audit_message, due_at, schedule_next_latest_at)

\* success that leaves the error of the original state in place
success_keeps_error(self, audit_message, due_at, schedule_next_latest_at) ==
    Result(clone(self, NotGivenError, STOPPED, SUCCESS, NotGiven, NotGiven),
           audit_message, due_at, schedule_next_latest_at)

\* Results.success
success(self, audit_message, due_at, schedule_next_latest_at) ==
    Result(clone(self, NoError, STOPPED, SUCCESS, NotGiven, NotGiven),
           audit_message, due_at, schedule_next_latest_at)

\* Results.paused
paused(self, audit_message, due_at, schedule_next_latest_at) ==
    Result(clone(self, NoError, PAUSED, ABSENT, NotGiven, NotGiven),
           audit_message, due_at, schedule_next_latest_at)

\* cancelled that leaves the stored error in place
cancelled_keeps_error(self, audit_message, due_at, schedule_next_latest_at) ==
    Result(clone(self, NotGivenError, STOPPED, CANCELLED, NotGiven, NotGiven),
           audit_message, due_at, schedule_next_latest_at)

\* Results.cancelled
cancelled(self, audit_message, due_at, schedule_next_latest_at) ==
    Result(clone(self, NoError, STOPPED, CANCELLED, NotGiven, NotGiven),
           audit_message, due_at, schedule_next_latest_at)

\* Results.cancelling
cancelling(self, audit_message, due_at, schedule_next_latest_at) ==
    Result(clone(self, NoError, CANCELLING, ABSENT, NotGiven, NotGiven),
           audit_message, due_at, schedule_next_latest_at)

\* Results.handled_failure
handled_failure(self, error, audit_message, due_at, schedule_next_latest_at) ==
    Result(clone(self, error, STOPPED, HANDLED_FAILURE, NotGiven, NotGiven),
           audit_message, due_at, schedule_next_latest_at)

\* ExceptionSerializer.serialize_exception.  A serializer is identified by the
\* format code it writes; the serialized payload is str(exc).
Serializers == {"simple", "custom"}
serialize_exception(exception_serializer, exc) == ErrorRaw(exception_serializer, exc)

\* Results.unhandled_failure
unhandled_failure(self, exc, audit_message, due_at, exception_serializer, schedule_next_latest_at) ==
    Result(clone(self, serialize_exception(exception_serializer, exc),
                 STOPPED, UNHANDLED_FAILURE, NotGiven, NotGiven),
           audit_message, due_at, schedule_next_latest_at)

(***************************************************************************)
(* StoredInfo                                                              *)
(***************************************************************************)
StoredInfo(state) == [state |-> state]

\* merge that does not carry the result's execution_state
merge_keeps_execution_state(self, res) ==
    StoredInfo(clone(self.state,
                     res.state.error,
                     NotGivenEnum,
                     res.state.result_state,
                     res.due_at,
                     res.schedule_next_latest_at))

\* merge that builds the stored state on the result's state
merge_onto_result_state(self, res) ==
    StoredInfo(clone(res.state, NotGivenError, NotGivenEnum, NotGivenEnum,
                     res.due_at, res.schedule_next_latest_at))

\* merge that takes the hints of the result's state
merge_uses_state_hints(self, res) ==
    StoredInfo(clone(self.state,
                     res.state.error,
                     res.state.execution_state,
                     res.state.result_state,
                     res.state.due_at,
                     res.state.schedule_next_latest_at))

\* StoredInfo.merge
merge(self, res) ==
    StoredInfo(clone(self.state,
                     res.state.error,
                     res.state.execution_state,
                     res.state.result_state,
                     res.due_at,
                     res.schedule_next_latest_at))

(***************************************************************************)
(* The Results machine: a computation's state carried through a sequence   *)
(* of Results calls, each built on the state left by the previous one.     *)
(***************************************************************************)
NoCall == [method |-> "none", on |-> fresh(0), due_at |-> NotGiven,
           schedule_next_latest_at |-> NotGiven, error |-> NoError,
           exc |-> "", exception_serializer |-> ""]
Call(method, on, due_at, schedule_next_latest_at, error, exc, exception_serializer) ==
    [method |-> method, on |-> on, due_at |-> due_at,
     schedule_next_latest_at |-> schedule_next_latest_at, error |-> error,
     exc |-> exc, exception_serializer |-> exception_serializer]
NoResult == Result(fresh(0), "<no result>", NotGiven, NotGiven)

\* two values of utcnow() at which a state was created
CreatedAts == {0, 1}

\* State values of every execution_state, result_state and hints
AllStates ==
    {State(e, x, r, c, d, s) :
        e \in {NoError, ErrorRaw("simple", "boom")},
        x \in ExecutionState, r \in ResultState, c \in CreatedAts,
        d \in StateHints, s \in StateHints}

ResultsUnchanged ==
    UNCHANGED <<engine_vars, lock_vars, fn_vars, tracker_vars, storage_vars, job_vars,
                upsert_vars, future_vars>>

\* A computation is handed a state and produces one Result from it; the
\* Result is used (UseResultState, MergeResult) before the next is produced.
Ready == last_call.method = "none"

\* Results.using(state).no_change(...)
NoChange(d, s) ==
    /\ Ready
    /\ result' = no_change(original_state, "", d, s)
    /\ last_call' = Call("no_change", original_state, d, s, NoError, "", "")
    /\ UNCHANGED <<original_state, stored_info>>
    /\ ResultsUnchanged

\* Results.using(state).pending(...)
Pending(d, s) ==
    /\ Ready
    /\ result' = pending(original_state, "p", d, s)
    /\ last_call' = Call("pending", original_state, d, s, NoError, "", "")
    /\ UNCHANGED <<original_state, stored_info>>
    /\ ResultsUnchanged

\* Results.using(state).progressing(...)
Progressing(d, s) ==
    /\ Ready
    /\ result' = progressing(original_state, "p", d, s)
    /\ last_call' = Call("progressing", original_state, d, s, NoError, "", "")
    /\ UNCHANGED <<original_state, stored_info>>
    /\ ResultsUnchanged

\* Results.using(state).success(...)
Success(d, s) ==
    /\ Ready
    /\ result' = success(original_state, "p", d, s)
    /\ last_call' = Call("success", original_state, d, s, NoError, "", "")
    /\ UNCHANGED <<original_state, stored_info>>
    /\ ResultsUnchanged

\* Results.using(state).paused(...)
Paused(d, s) ==
    /\ Ready
    /\ result' = paused(original_state, "p", d, s)
    /\ last_call' = Call("paused", original_state, d, s, NoError, "", "")
    /\ UNCHANGED <<original_state, stored_info>>
    /\ ResultsUnchanged

\* Results.using(state).cancelled(...)
Cancelled(d, s) ==
    /\ Ready
    /\ result' = cancelled(original_state, "p", d, s)
    /\ last_call' = Call("cancelled", original_state, d, s, NoError, "", "")
    /\ UNCHANGED <<original_state, stored_info>>
    /\ ResultsUnchanged

\* Results.using(state).cancelling(...)
Cancelling(d, s) ==
    /\ Ready
    /\ result' = cancelling(original_state, "p", d, s)
    /\ last_call' = Call("cancelling", original_state, d, s, NoError, "", "")
    /\ UNCHANGED <<original_state, stored_info>>
    /\ ResultsUnchanged

\* Results.using(state).handled_failure(error=..., ...)
HandledFailure(err, d, s) ==
    /\ Ready
    /\ result' = handled_failure(original_state, err, "p", d, s)
    /\ last_call' = Call("handled_failure", original_state, d, s, err, "", "")
    /\ UNCHANGED <<original_state, stored_info>>
    /\ ResultsUnchanged

\* Results.using(state).unhandled_failure(exc=..., exception_serializer=..., ...)
UnhandledFailure(exc, ser, d, s) ==
    /\ Ready
    /\ result' = unhandled_failure(original_state, exc, "p", d, ser, s)
    /\ last_call' = Call("unhandled_failure", original_state, d, s, NoError, exc, ser)
    /\ UNCHANGED <<original_state, stored_info>>
    /\ ResultsUnchanged

\* The next Results is built directly on the previous result's state
\* (Results(original_state=result.state), as tests/test_state.py does); that
\* state is what is stored from now on.
UseResultState ==
    /\ last_call.method # "none"
    /\ original_state' = result.state
    /\ stored_info' = StoredInfo(result.state)
    /\ result' = NoResult
    /\ last_call' = NoCall
    /\ ResultsUnchanged

\* The result is persisted with StoredInfo.merge and the next Results is
\* built on the stored state.
MergeResult ==
    /\ last_call.method # "none"
    /\ stored_info' = merge(stored_info, result)
    /\ original_state' = stored_info'.state
    /\ result' = NoResult
    /\ last_call' = NoCall
    /\ ResultsUnchanged

\* the Errors a computation reports with handled_failure
HandledErrors == {Error("simple", "boom"), Error("custom", "bang")}

ResultsNext ==
    \/ \E d \in ScheduleBy, s \in ScheduleBy :
          \/ NoChange(d, s)
          \/ Pending(d, s)
          \/ Progressing(d, s)
          \/ Success(d, s)
          \/ Paused(d, s)
          \/ Cancelled(d, s)
          \/ Cancelling(d, s)
          \/ \E err \in HandledErrors : HandledFailure(err, d, s)
          \/ \E exc \in Exceptions, ser \in Serializers : UnhandledFailure(exc, ser, d, s)
    \/ UseResultState
    \/ MergeResult

(***************************************************************************)
(* MemoryStorage.hold_workflow_lock, one step per interleaving point.      *)
(*                                                                         *)
(*   103  if identifier not in self._locks:            pc "check"          *)
(*   104      self._locks[identifier] = threading.Lock()   "create"        *)
(*   106  with self._locks[identifier]:                "lookup", "acquire" *)
(*   107      yield                                    "body"              *)
(*   109  if (lock := self._locks.get(identifier)) is not None:   "get"    *)
(*   110      if not lock.locked():                    "locked"            *)
(*   111          del self._locks[identifier]          "del"               *)
(***************************************************************************)
Threads == 1..NumThreads
NoThread == 0
Identifiers == {"w1", "w2"}
LockObjects == 1..MaxLockObjects
NoLock == 0

NoOutcome == [kind |-> "none", exc |-> "", from |-> ""]
Returned == [kind |-> "returned", exc |-> "", from |-> ""]
Raised(exc, from) == [kind |-> "raised", exc |-> exc, from |-> from]

\* a Lock that reports itself locked while any lock of the table is held
locked_any(lock) == \E l \in LockObjects : lock_owner[l] # NoThread

\* threading.Lock.locked
locked(lock) == lock_owner[lock] # NoThread

\* the threads inside the guarded scope of identifier w
InScope(w) == {u \in Threads : thread_pc[u] = "body" /\ thread_ident[u] = w}

LockUnchanged ==
    UNCHANGED <<results_vars, engine_vars, fn_vars, tracker_vars, storage_vars, job_vars,
                upsert_vars, future_vars>>

\* A thread calls hold_workflow_lock(w) and enters the context manager.
CallHoldWorkflowLock(t, w) ==
    /\ thread_pc[t] = "idle"
    /\ calls_started < MaxCalls
    /\ locks_created
         + Cardinality({u \in DOMAIN thread_pc : thread_pc[u] \in {"check", "create"}})
         < MaxLockObjects
    /\ thread_pc' = [thread_pc EXCEPT ![t] = "check"]
    /\ thread_ident' = [thread_ident EXCEPT ![t] = w]
    /\ calls_started' = calls_started + 1
    /\ thread_outcome' = [thread_outcome EXCEPT ![t] = NoOutcome]
    /\ thread_lock' = [thread_lock EXCEPT ![t] = NoLock]
    /\ thread_seen' = [thread_seen EXCEPT ![t] = NoLock]
    /\ holders_at_call' = [holders_at_call EXCEPT ![t] = InScope(w) \ {t}]
    /\ UNCHANGED <<_locks, lock_owner, locks_created>>
    /\ LockUnchanged

\* line 103: if identifier not in self._locks
CheckPresent(t) ==
    /\ thread_pc[t] = "check"
    /\ thread_pc' = [thread_pc EXCEPT ![t] =
          IF _locks[thread_ident[t]] = NoLock THEN "create" ELSE "lookup"]
    /\ UNCHANGED <<_locks, lock_owner, locks_created, thread_ident, thread_lock,
                   thread_seen, thread_outcome, calls_started, holders_at_call>>
    /\ LockUnchanged

\* line 104: self._locks[identifier] = threading.Lock()
CreateLock(t) ==
    /\ thread_pc[t] = "create"
    /\ locks_created' = locks_created + 1
    /\ _locks' = [_locks EXCEPT ![thread_ident[t]] = locks_created + 1]
    /\ thread_pc' = [thread_pc EXCEPT ![t] = "lookup"]
    /\ UNCHANGED <<lock_owner, thread_ident, thread_lock, thread_seen,
                   thread_outcome, calls_started, holders_at_call>>
    /\ LockUnchanged

\* line 106: the subscript self._locks[identifier]; KeyError when the entry
\* is gone
LookupLock(t) ==
    /\ thread_pc[t] = "lookup"
    /\ IF _locks[thread_ident[t]] = NoLock
         THEN /\ thread_pc' = [thread_pc EXCEPT ![t] = "idle"]
              /\ thread_outcome' = [thread_outcome EXCEPT ![t] =
                                        Raised("KeyError", "hold_workflow_lock")]
              /\ UNCHANGED thread_lock
         ELSE /\ thread_pc' = [thread_pc EXCEPT ![t] = "acquire"]
              /\ thread_lock' = [thread_lock EXCEPT ![t] = _locks[thread_ident[t]]]
              /\ UNCHANGED thread_outcome
    /\ UNCHANGED <<_locks, lock_owner, locks_created, thread_ident,
                   thread_seen, calls_started, holders_at_call>>
    /\ LockUnchanged

\* line 106: with <lock>  --  Lock.__enter__ blocks until the lock is free
AcquireLock(t) ==
    /\ thread_pc[t] = "acquire"
    /\ ~locked(thread_lock[t])
    /\ lock_owner' = [lock_owner EXCEPT ![thread_lock[t]] = t]
    /\ thread_pc' = [thread_pc EXCEPT ![t] = "body"]
    /\ UNCHANGED <<_locks, locks_created, thread_ident, thread_lock, thread_seen,
                   thread_outcome, calls_started, holders_at_call>>
    /\ LockUnchanged

\* Lock.__exit__ of the `with` statement at line 106
release(t) == [lock_owner EXCEPT ![thread_lock[t]] = NoThread]

\* the threads that were waiting for t to leave no longer are
Left(t) == [u \in DOMAIN holders_at_call |-> holders_at_call[u] \ {t}]

\* line 107: the caller's body finishes normally; the `with` releases
BodyReturns(t) ==
    /\ thread_pc[t] = "body"
    /\ lock_owner' = release(t)
    /\ thread_pc' = [thread_pc EXCEPT ![t] = "get"]
    /\ holders_at_call' = Left(t)
    /\ UNCHANGED <<_locks, locks_created, thread_ident, thread_lock, thread_seen,
                   thread_outcome, calls_started>>
    /\ LockUnchanged

\* the lock is not released when the body raises
no_release_on_exception(t) == lock_owner

\* Lock.__exit__ when the `with` block is left by an exception
release_on_exception(t) == release(t)

\* line 107: the caller's body raises; the exception is thrown into the
\* generator at the yield, the `with` releases, lines 109-111 are skipped
BodyRaises(t, exc) ==
    /\ thread_pc[t] = "body"
    /\ lock_owner' = release_on_exception(t)
    /\ thread_pc' = [thread_pc EXCEPT ![t] = "idle"]
    /\ thread_outcome' = [thread_outcome EXCEPT ![t] = Raised(exc, "body")]
    /\ holders_at_call' = Left(t)
    /\ UNCHANGED <<_locks, locks_created, thread_ident, thread_lock, thread_seen,
                   calls_started>>
    /\ LockUnchanged

\* line 109: (lock := self._locks.get(identifier)) is not None
GetLock(t) ==
    /\ thread_pc[t] = "get"
    /\ thread_seen' = [thread_seen EXCEPT ![t] = _locks[thread_ident[t]]]
    /\ IF _locks[thread_ident[t]] = NoLock
         THEN /\ thread_pc' = [thread_pc EXCEPT ![t] = "idle"]
              /\ thread_outcome' = [thread_outcome EXCEPT ![t] = Returned]
         ELSE /\ thread_pc' = [thread_pc EXCEPT ![t] = "locked"]
              /\ UNCHANGED thread_outcome
    /\ UNCHANGED <<_locks, lock_owner, locks_created, thread_ident, thread_lock,
                   calls_started, holders_at_call>>
    /\ LockUnchanged

\* line 110: if not lock.locked()
CheckLocked(t) ==
    /\ thread_pc[t] = "locked"
    /\ IF locked(thread_seen[t])
         THEN /\ thread_pc' = [thread_pc EXCEPT ![t] = "idle"]
              /\ thread_outcome' = [thread_outcome EXCEPT ![t] = Returned]
         ELSE /\ thread_pc' = [thread_pc EXCEPT ![t] = "del"]
              /\ UNCHANGED thread_outcome
    /\ UNCHANGED <<_locks, lock_owner, locks_created, thread_ident, thread_lock,
                   thread_seen, calls_started, holders_at_call>>
    /\ LockUnchanged

\* line 111: del self._locks[identifier]; KeyError when the entry is gone
DeleteLock(t) ==
    /\ thread_pc[t] = "del"
    /\ IF _locks[thread_ident[t]] = NoLock
         THEN /\ thread_outcome' = [thread_outcome EXCEPT ![t] =
                                        Raised("KeyError", "hold_workflow_lock")]
              /\ UNCHANGED _locks
         ELSE /\ thread_outcome' = [thread_outcome EXCEPT ![t] = Returned]
              /\ _locks' = [_locks EXCEPT ![thread_ident[t]] = NoLock]
    /\ thread_pc' = [thread_pc EXCEPT ![t] = "idle"]
    /\ UNCHANGED <<lock_owner, locks_created, thread_ident, thread_lock,
                   thread_seen, calls_started, holders_at_call>>
    /\ LockUnchanged

\* what the body of the `with` statement raises
BodyExceptions == {"boom"}

LockNext ==
    \E t \in Threads :
        \/ \E w \in Identifiers : CallHoldWorkflowLock(t, w)
        \/ CheckPresent(t)
        \/ CreateLock(t)
        \/ LookupLock(t)
        \/ AcquireLock(t)
        \/ BodyReturns(t)
        \/ \E exc \in BodyExceptions : BodyRaises(t, exc)
        \/ GetLock(t)
        \/ CheckLocked(t)
        \/ DeleteLock(t)

\* MemoryStorage.__init__, no thread in hold_workflow_lock
LockInit ==
    /\ _locks = [w \in Identifiers |-> NoLock]
    /\ lock_owner = [l \in LockObjects |-> NoThread]
    /\ locks_created = 0
    /\ thread_pc = [t \in Threads |-> "idle"]
    /\ thread_ident = [t \in Threads |-> "w1"]
    /\ thread_lock = [t \in Threads |-> NoLock]
    /\ thread_seen = [t \in Threads |-> NoLock]
    /\ thread_outcome = [t \in Threads |-> NoOutcome]
    /\ calls_started = 0
    /\ holders_at_call = [t \in Threads |-> {}]

(***************************************************************************)
(* hold_workflow_lock called again from inside the body of a call (line    *)
(* 107): the inner call is a second frame of the same thread, and the body *)
(* of the outer call goes on only when the inner call has ended.           *)
(***************************************************************************)
Inner(t) == t + NumThreads
Frames == 1..(2 * NumThreads)

\* line 107: the body calls hold_workflow_lock(w)
NestedCall(t, w) ==
    /\ thread_pc[t] = "body"
    /\ CallHoldWorkflowLock(Inner(t), w)

\* the body of the outer call ends after the calls it made
OuterBodyReturns(t) ==
    /\ thread_pc[Inner(t)] = "idle"
    /\ BodyReturns(t)

OuterBodyRaises(t, exc) ==
    /\ thread_pc[Inner(t)] = "idle"
    /\ BodyRaises(t, exc)

NestedNext ==
    \E t \in Threads :
        \/ \E w \in Identifiers : CallHoldWorkflowLock(t, w)
        \/ \E w \in Identifiers : NestedCall(t, w)
        \/ OuterBodyReturns(t)
        \/ \E exc \in BodyExceptions : OuterBodyRaises(t, exc)
        \/ BodyReturns(Inner(t))
        \/ \E exc \in BodyExceptions : BodyRaises(Inner(t), exc)
        \/ \E f \in {t, Inner(t)} :
              \/ CheckPresent(f)
              \/ CreateLock(f)
              \/ LookupLock(f)
              \/ AcquireLock(f)
              \/ GetLock(f)
              \/ CheckLocked(f)
              \/ DeleteLock(f)

\* MemoryStorage.__init__, no thread in hold_workflow_lock, with a frame for
\* the call each thread may make from inside its body
NestedInit ==
    /\ _locks = [w \in Identifiers |-> NoLock]
    /\ lock_owner = [l \in LockObjects |-> NoThread]
    /\ locks_created = 0
    /\ thread_pc = [f \in Frames |-> "idle"]
    /\ thread_ident = [f \in Frames |-> "w1"]
    /\ thread_lock = [f \in Frames |-> NoLock]
    /\ thread_seen = [f \in Frames |-> NoLock]
    /\ thread_outcome = [f \in Frames |-> NoOutcome]
    /\ calls_started = 0
    /\ holders_at_call = [f \in Frames |-> {}]

\* the Results machine before any call
ResultsInit ==
    /\ original_state = fresh(0)
    /\ result = NoResult
    /\ last_call = NoCall
    /\ stored_info = StoredInfo(original_state)

ResultsInitAny ==
    /\ original_state \in AllStates
    /\ result = NoResult
    /\ last_call = NoCall
    /\ stored_info = StoredInfo(original_state)

(***************************************************************************)
(* Paths, ComputationState, Job, JobStatus, JobTracker                     *)
(***************************************************************************)
JobNames == {"a"}
WorkflowIdentifier == "w1"

\* state.JobPath
JobPath(identifier, prefix, job_name) ==
    [identifier |-> identifier, prefix |-> prefix, job_name |-> job_name]

\* state.ExternalInputPath
ExternalInputPath(identifier, external_input_name) ==
    [identifier |-> identifier, external_input_name |-> external_input_name]

\* JobPathBase.path
path(job_path) == Append(job_path.prefix, job_path.job_name)

\* Exceptions observed on a computation
NoException == [kind |-> "None", identifier |-> "", path |-> <<>>, error |-> ""]
ComputationCancelled(identifier, p) ==
    [kind |-> "ComputationCancelled", identifier |-> identifier, path |-> p, error |-> ""]
ComputationErrored(identifier, p, error) ==
    [kind |-> "ComputationErrored", identifier |-> identifier, path |-> p, error |-> error]

\* Error.as_exception: SimpleError gives ComputationErrored(error=serialized);
\* an Error class of another format code gives an exception of its own.
as_exception(error, identifier, p) ==
    IF error.format_code = "simple"
        THEN ComputationErrored(identifier, p, error.serialized)
        ELSE [kind |-> "CustomErrored", identifier |-> identifier, path |-> p,
              error |-> error.serialized]

\* repr() of a ResultState member
repr(result_state) == "<ResultState." \o result_state \o ">"

\* state.ComputationState
ComputationState(original, identifier, p, error) ==
    [original_state |-> original,
     identifier |-> identifier,
     path |-> p,
     error |-> error,
     execution_state |-> original.execution_state,
     result_state |-> original.result_state,
     due_at |-> original.due_at]

\* an exception made from the attached error whatever the result_state
exception_from_attached_error(self) ==
    IF self.error.kind = "None" /\ self.result_state = CANCELLED
        THEN ComputationCancelled(self.identifier, self.path)
    ELSE IF self.error.kind # "None"
        THEN as_exception(self.error, self.identifier, self.path)
    ELSE IF self.result_state \notin {HANDLED_FAILURE, UNHANDLED_FAILURE, CANCELLED}
        THEN NoException
    ELSE ComputationErrored(self.identifier, self.path, repr(self.result_state))

\* ComputationState.exception
ComputationState_exception(self) ==
    IF self.error.kind = "None" /\ self.result_state = CANCELLED
        THEN ComputationCancelled(self.identifier, self.path)
    ELSE IF self.result_state \notin {HANDLED_FAILURE, UNHANDLED_FAILURE, CANCELLED}
        THEN NoException
    ELSE IF self.error.kind = "None"
        THEN ComputationErrored(self.identifier, self.path, repr(self.result_state))
    ELSE as_exception(self.error, self.identifier, self.path)

\* ComputationState.job_path
job_path_of(self, job_name) == JobPath(self.identifier, self.path, job_name)

\* jobs.Job
Job(res, name, computation, state) ==
    [result |-> res, name |-> name, computation |-> computation, state |-> state]

\* Job.done true for every execution_state a computation has been in
done_once_started(job) == job.state.execution_state # PENDING

\* Job.done
done(job) == job.state.execution_state = STOPPED

\* Job.exception
exception(job) ==
    IF job.state.result_state \in {ABSENT, SUCCESS}
        THEN NoException
        ELSE ComputationState_exception(job.state)

\* jobs.JobStatus; job_before is <<>> for None or <<job>>
JobStatus(name, job_before, job_executions) ==
    [name |-> name, job_before |-> job_before, job_executions |-> job_executions]

\* add_execution that puts the job at the front of the list
add_execution_prepends(self, job) ==
    JobStatus(self.name, self.job_before, <<job>> \o self.job_executions)

\* add_execution that appends the job twice
add_execution_twice(self, job) ==
    JobStatus(self.name, self.job_before, self.job_executions \o <<job, job>>)

\* JobStatus.add_execution
add_execution(self, job) ==
    JobStatus(self.name, self.job_before, Append(self.job_executions, job))

RECURSIVE add_all(_, _)
add_all(status, executions) ==
    IF executions = <<>> THEN status
    ELSE add_all(add_execution(status, Head(executions)), Tail(executions))

\* JobStatus.clone
JobStatus_clone(self) ==
    add_all(JobStatus(self.name, self.job_before, <<>>), self.job_executions)

\* JobStatus.latest_execution, <<>> for None
latest_execution(self) ==
    IF self.job_executions = <<>> THEN <<>>
    ELSE <<self.job_executions[Len(self.job_executions)]>>

\* JobTracker._fresh_job_status (tests/test_job.py M_JobTracker)
fresh_job_status(name) == JobStatus(name, <<>>, <<>>)

\* a dict with key k set to v
Put(dict, k, v) == [q \in DOMAIN dict \cup {k} |-> IF q = k THEN v ELSE dict[q]]

\* a job_status that also adds the statuses start holds for the paths below
\* job_path
job_status_with_children(start, added, job_path) ==
    LET p == path(job_path)
        below == {q \in DOMAIN start \ DOMAIN added :
                    Len(q) >= Len(p) /\ SubSeq(q, 1, Len(p)) = p}
        name == job_path.job_name
    IN [q \in DOMAIN added \cup below \cup {p} |->
          IF q \in DOMAIN added THEN added[q]
          ELSE IF q \in DOMAIN start THEN JobStatus_clone(start[q])
          ELSE fresh_job_status(name)]

\* a job_status that never looks at _start_jobs
job_status_fresh_only(start, added, job_path) ==
    LET p == path(job_path) IN
    IF p \in DOMAIN added THEN added
    ELSE Put(added, p, fresh_job_status(job_path.job_name))

\* JobTracker.job_status: the contents of _added_jobs after the call; the
\* status it returns is the entry at job_path.path
job_status(start, added, job_path) ==
    LET p == path(job_path) IN
    IF p \in DOMAIN added THEN added
    ELSE IF p \in DOMAIN start THEN Put(added, p, JobStatus_clone(start[p]))
    ELSE Put(added, p, fresh_job_status(job_path.job_name))

(***************************************************************************)
(* Computations, serializers and resolvers handed to the engine            *)
(***************************************************************************)
\* "plain" implements only Computation; "ser" also ExceptionSerializer;
\* "both" also ExceptionSerializer and ErrorResolver.
Computations == {"plain", "ser", "both"}

\* isinstance(computation, protocols.ExceptionSerializer)
IsExceptionSerializer(computation) == computation \in {"ser", "both"}

\* isinstance(computation, protocols.ErrorResolver)
IsErrorResolver(computation) == computation = "both"

\* Engine.default_exception_serializer / default_error_resolver
default_exception_serializer == "simple"
default_error_resolver == "default"

\* the serializer a computation is, when it implements ExceptionSerializer
AsSerializer(computation) == "custom"

\* the format codes a resolver can promote: the engine default knows the
\* SimpleError code, a computation that is its own resolver knows its own
KnownCodes(resolver) == IF resolver = default_error_resolver THEN {"simple"} ELSE {"custom"}

\* ErrorResolver.resolve_error raises for a raw error of unknown format code
resolve_error_raises(resolver, error) ==
    error.kind = "raw" /\ error.format_code \notin KnownCodes(resolver)

\* ErrorResolver.resolve_error: idempotent on an Error, promotes an ErrorRaw
resolve_error(resolver, error) ==
    IF error.kind = "resolved" THEN error
    ELSE Error(error.format_code, error.serialized)

\* the exception a resolver raises
Unresolvable == "unresolvable"

(***************************************************************************)
(* Engine                                                                  *)
(***************************************************************************)
\* Engine._make_error, lines 166-168: the resolver selected
error_resolver_for(computation) ==
    IF IsErrorResolver(computation) THEN computation ELSE default_error_resolver

\* Engine._make_error raises; res is <<>> for None or <<result>>
make_error_raises(computation, res) ==
    /\ res # <<>>
    /\ res[1].state.error.kind # "None"
    /\ resolve_error_raises(error_resolver_for(computation), res[1].state.error)

\* Engine._make_error
make_error(computation, res) ==
    IF res = <<>> \/ res[1].state.error.kind = "None" THEN NoError
    ELSE resolve_error(error_resolver_for(computation), res[1].state.error)

\* _make_job that always starts from a fresh state
make_job_always_fresh(job_path, res, error, computation, now) ==
    LET r == Result(fresh(now), "", NotGiven, NotGiven)
    IN [result |-> r, name |-> job_path.job_name, computation |-> computation,
        state |-> [original_state |-> r.state, identifier |-> job_path.identifier,
                   path |-> Append(job_path.prefix, job_path.job_name),
                   error |-> error,
                   execution_state |-> r.state.execution_state,
                   result_state |-> r.state.result_state,
                   due_at |-> r.state.due_at]]

\* Engine._make_job (tests/test_job.py M_Engine); now is utcnow()
make_job(job_path, res, error, computation, now) ==
    LET r == IF res = <<>> THEN Result(fresh(now), "", NotGiven, NotGiven) ELSE res[1]
    IN Job(r, job_path.job_name, computation,
           ComputationState(r.state, job_path.identifier, path(job_path), error))

\* Engine.run lines 232-234: the serializer selected
exception_serializer_for(computation) ==
    IF IsExceptionSerializer(computation)
        THEN AsSerializer(computation) ELSE default_exception_serializer

\* override_execute: None, True or a Computation
OverrideNone == "None"
OverrideTrue == "True"
\* the overrides tried for a computation: none, True, and a computation that
\* implements other protocols than it does
OverridesFor(computation) ==
    {OverrideNone, OverrideTrue, IF computation = "plain" THEN "both" ELSE "plain"}

\* datetime.utcnow() inside a run: every run happens at a later instant
utcnow == runs_started

\* One active call of Engine.run that is inside intention.execute.
\*   executed      the computations whose execute this call invoked
\*   pc            "executing", or "child_raised" while an exception raised by
\*                 an executor call is in flight inside execute
\*   added_before  the number of executions of every status of _added_jobs
\*                 when the call was made
Frame(job_path, computation, override_execute, job, executed, before) ==
    [job_path |-> job_path, computation |-> computation,
     override_execute |-> override_execute, job |-> job, executed |-> executed,
     pc |-> "executing", pending_exc |-> "", child_failed |-> FALSE,
     added_before |-> before]

\* path -> number of executions, for every status of a tracker's _added_jobs
ExecutionCounts(added) == [q \in DOMAIN added |-> Len(added[q].job_executions)]

\* What is known of a finished Engine.run call
Summary(job_path, computation, override_execute, depth, outcome, job, exc, pre, executed, execute_raised, execute_returned, child_failed, before, after) ==
    [job_path |-> job_path, computation |-> computation,
     override_execute |-> override_execute, depth |-> depth,
     outcome |-> outcome, job |-> job, exc |-> exc, pre |-> pre,
     executed |-> executed, execute_raised |-> execute_raised,
     execute_returned |-> execute_returned, child_failed |-> child_failed,
     added_before |-> before, added_after |-> after]

NoRun == Summary(JobPath("", <<>>, ""), "", OverrideNone, 0, "none", <<>>, "", <<>>,
                 <<>>, <<>>, <<>>, FALSE, <<>>, <<>>)

\* The caller of a finished run resumes: a returned Job leaves its execute
\* running, a raised exception is in flight inside its execute.
Resume(callers, summary) ==
    IF callers = <<>> THEN callers
    ELSE [callers EXCEPT ![Len(callers)] =
            [@ EXCEPT !.pc = IF summary.outcome = "raised" THEN "child_raised" ELSE @,
                      !.pending_exc = IF summary.outcome = "raised" THEN summary.exc ELSE @,
                      !.child_failed = @ \/ summary.execute_raised # <<>>]]

NoExecutorCall ==
    [path |-> <<>>, intention |-> "", branch |-> "none", raised |-> "", out |-> "",
     run_calls |-> 0, external_input_calls |-> 0, resolve_calls |-> 0,
     start_before |-> <<>>, added_before |-> <<>>, runs_before |-> 0, depth |-> 0]

EngineUnchanged ==
    UNCHANGED <<results_vars, lock_vars, fn_vars, tracker_vars, storage_vars, job_vars,
                upsert_vars, future_vars>>

\* the override is ignored and computation.execute is invoked
intention_is_computation(computation, override_execute) == computation

\* Engine.run lines 221-225: whose execute is invoked
intention_of(computation, override_execute) ==
    IF override_execute = OverrideNone THEN computation ELSE override_execute

\* a result_before taken from the latest execution of the status, when it
\* has one
result_before_latest(status) ==
    IF status.job_executions # <<>>
        THEN <<status.job_executions[Len(status.job_executions)].result>>
    ELSE IF status.job_before # <<>> THEN <<status.job_before[1].result>>
    ELSE <<>>

\* Engine.run lines 206-209: result_before, <<>> for None
result_before_of(status) ==
    IF status.job_before # <<>> THEN <<status.job_before[1].result>> ELSE <<>>

\* Engine.run lines 204-230: job_status, the pre-snapshot, the override check,
\* up to the invocation of intention.execute
Run(callers, job_path, computation, override_execute) ==
    LET p == path(job_path)
        added == job_status(start_jobs, added_jobs, job_path)
        status == added[p]
        result_before == result_before_of(status)
        job == make_job(job_path, result_before,
                        make_error(computation, result_before), computation, utcnow)
        intention == intention_of(computation, override_execute)
        raised == Summary(job_path, computation, override_execute, Len(callers),
                          "raised", <<>>, Unresolvable, <<>>, <<>>, <<>>, <<>>, FALSE,
                          ExecutionCounts(added_jobs), ExecutionCounts(added))
        returned == Summary(job_path, computation, override_execute, Len(callers),
                            "returned", <<job>>, "", <<job>>, <<>>, <<>>, <<>>, FALSE,
                            ExecutionCounts(added_jobs), ExecutionCounts(added))
    IN /\ runs_started < MaxRuns
       /\ runs_started' = runs_started + 1
       /\ added_jobs' = added
       /\ UNCHANGED start_jobs
       /\ IF make_error_raises(computation, result_before)
            THEN /\ last_run' = raised
                 /\ stack' = Resume(callers, raised)
          ELSE IF override_execute = OverrideTrue
            THEN /\ last_run' = returned
                 /\ stack' = Resume(callers, returned)
          ELSE /\ stack' = Append(callers,
                      Frame(job_path, computation, override_execute, job,
                            <<intention>>, ExecutionCounts(added_jobs)))
               /\ UNCHANGED last_run

\* Engine.run lines 242-249: the post-snapshot of `res`, add_execution, return
Finish(res, execute_raised, execute_returned) ==
    LET frame == stack[Len(stack)]
        callers == SubSeq(stack, 1, Len(stack) - 1)
        p == path(frame.job_path)
        job_after == make_job(frame.job_path, <<res>>,
                              make_error(frame.computation, <<res>>),
                              frame.computation, utcnow)
        added == [added_jobs EXCEPT ![p] = add_execution(@, job_after)]
        raised == Summary(frame.job_path, frame.computation, frame.override_execute,
                          Len(callers), "raised", <<>>, Unresolvable, <<frame.job>>,
                          frame.executed, execute_raised, execute_returned,
                          frame.child_failed, frame.added_before,
                          ExecutionCounts(added_jobs))
        returned == Summary(frame.job_path, frame.computation, frame.override_execute,
                            Len(callers), "returned", <<job_after>>, "", <<frame.job>>,
                            frame.executed, execute_raised, execute_returned,
                            frame.child_failed, frame.added_before,
                            ExecutionCounts(added))
    IN IF make_error_raises(frame.computation, <<res>>)
         THEN /\ last_run' = raised
              /\ stack' = Resume(callers, raised)
              /\ UNCHANGED added_jobs
         ELSE /\ last_run' = returned
              /\ stack' = Resume(callers, returned)
              /\ added_jobs' = added

\* The exceptions an execute raises of its own
ExecuteExceptions == {"boom"}

\* The Results an execute may return: Results.using(state) and one method
ExecuteResults(state) ==
    LET o == state.original_state IN
    {no_change(o, "", NotGiven, NotGiven),
     success(o, "p", NotGiven, NotGiven),
     handled_failure(o, Error("custom", "bang"), "p", NotGiven, NotGiven),
     cancelling(o, "p", NotGiven, NotGiven),
     cancelled(o, "p", NotGiven, NotGiven)}

\* ExternalInputResolver objects: one whose resolve returns the data and one
\* whose resolve raises
ExternalInputResolvers == {"input_ready", "input_fails"}
ResolveException == "unavailable"

\* external_input_resolver.resolve(): the exception raised ("" for none) and
\* the value returned
resolve(external_input_resolver) ==
    IF external_input_resolver = "input_ready"
        THEN [raised |-> "", out |-> "data"]
        ELSE [raised |-> ResolveException, out |-> ""]

\* isinstance(intention, protocols.ExternalInputResolver)
IsExternalInputResolver(intention) == intention \in ExternalInputResolvers

\* isinstance(p, protocols.JobPath) / isinstance(p, protocols.ExternalInputPath):
\* runtime-checkable protocols look for their members
IsJobPath(p) == {"identifier", "prefix", "job_name"} \subseteq DOMAIN p
IsExternalInputPath(p) == {"identifier", "external_input_name"} \subseteq DOMAIN p

\* the RuntimeErrors of ComputationExecutorBase.__call__, by their message
ResolverWithJobPath == "May only execute external inputs with external input paths"
ComputationWithInputPath == "May only execute computations with job paths"

\* a __call__ that hands every resolver to engine.external_input
call_branch_unchecked(p, intention) ==
    IF IsExternalInputResolver(intention) THEN "external_input"
    ELSE IF IsExternalInputPath(p) THEN ComputationWithInputPath
    ELSE "run"

\* ComputationExecutorBase.__call__ lines 63-79: the RuntimeError raised, or
\* the engine method delegated to
call_branch(p, intention) ==
    IF IsExternalInputResolver(intention)
        THEN IF IsJobPath(p) THEN ResolverWithJobPath ELSE "external_input"
    ELSE IF IsExternalInputPath(p) THEN ComputationWithInputPath
    ELSE "run"

\* Engine.external_input
external_input(external_input_path, external_input_resolver) ==
    resolve(external_input_resolver)

\* an executor call made inside execute, with the tracker as the call found
\* it and the calls it made on the engine and on the resolver
ExecutorCalled(p, intention, branch, raised, out, run_calls, external_input_calls, resolve_calls) ==
    [path |-> p, intention |-> intention, branch |-> branch, raised |-> raised,
     out |-> out, run_calls |-> run_calls, external_input_calls |-> external_input_calls,
     resolve_calls |-> resolve_calls, start_before |-> start_jobs,
     added_before |-> added_jobs, runs_before |-> runs_started,
     depth |-> Len(stack)]

\* The host calls Engine.run for a top-level job.
HostRun(job_name, computation, override_execute) ==
    /\ stack = <<>>
    /\ Run(<<>>, JobPath(WorkflowIdentifier, <<>>, job_name), computation, override_execute)
    /\ executor_call' = NoExecutorCall
    /\ EngineUnchanged

\* Inside execute: executor(state.job_path(name), computation,
\* override_execute=...), ComputationExecutorBase.__call__ lines 70-79
ExecutorRun(job_name, computation, override_execute) ==
    /\ stack # <<>>
    /\ stack[Len(stack)].pc = "executing"
    /\ Len(path(stack[Len(stack)].job_path)) < MaxDepth
    /\ call_branch(job_path_of(stack[Len(stack)].job.state, job_name), computation) = "run"
    /\ Run(stack, job_path_of(stack[Len(stack)].job.state, job_name),
           computation, override_execute)
    /\ executor_call' = ExecutorCalled(job_path_of(stack[Len(stack)].job.state, job_name),
                                       computation, "run", "", "", 1, 0, 0)
    /\ EngineUnchanged

\* Inside execute: executor(path, intention) with an intention that is not a
\* Computation, or a path that is not a JobPath; __call__ lines 63-72 and
\* Engine.external_input.  An exception raised is in flight inside execute.
ExecutorCall(p, intention) ==
    /\ stack # <<>>
    /\ stack[Len(stack)].pc = "executing"
    /\ LET branch == call_branch(p, intention)
           resolved == external_input(p, intention)
           exc == IF branch = "external_input" THEN resolved.raised ELSE branch
       IN /\ branch # "run"
          /\ executor_call' =
                IF branch = "external_input"
                    THEN ExecutorCalled(p, intention, branch, resolved.raised,
                                        resolved.out, 0, 1, 1)
                    ELSE ExecutorCalled(p, intention, branch, branch, "", 0, 0, 0)
          /\ stack' = IF exc = "" THEN stack
                      ELSE [stack EXCEPT ![Len(stack)] =
                               [@ EXCEPT !.pc = "child_raised", !.pending_exc = exc]]
    /\ UNCHANGED <<start_jobs, added_jobs, last_run, runs_started>>
    /\ EngineUnchanged

\* Inside execute: executor.get_without_executing(state.job_path(name), computation)
GetWithoutExecuting(job_name, computation) ==
    /\ stack # <<>>
    /\ stack[Len(stack)].pc = "executing"
    /\ Len(path(stack[Len(stack)].job_path)) < MaxDepth
    /\ Run(stack, job_path_of(stack[Len(stack)].job.state, job_name),
           computation, OverrideTrue)
    /\ executor_call' = NoExecutorCall
    /\ EngineUnchanged

\* execute returns a Result; Engine.run lines 228-230 and 242-249
ExecuteReturns(res) ==
    /\ stack # <<>>
    /\ stack[Len(stack)].pc = "executing"
    /\ res \in ExecuteResults(stack[Len(stack)].job.state)
    /\ Finish(res, <<>>, <<res>>)
    /\ UNCHANGED <<start_jobs, runs_started>>
    /\ executor_call' = NoExecutorCall
    /\ EngineUnchanged

\* execute raises exc: its own exception, or the exception of an executor
\* call that it does not catch; Engine.run lines 231-249
ExecuteRaises(exc) ==
    /\ stack # <<>>
    /\ LET frame == stack[Len(stack)] IN
       /\ \/ frame.pc = "executing" /\ exc \in ExecuteExceptions
          \/ frame.pc = "child_raised" /\ exc = frame.pending_exc
       /\ Finish(unhandled_failure(frame.job.state.original_state, exc,
                                   "unhandled exception caught by internal logic",
                                   NotGiven,
                                   exception_serializer_for(frame.computation),
                                   NotGiven),
                 <<exc>>, <<>>)
    /\ UNCHANGED <<start_jobs, runs_started>>
    /\ executor_call' = NoExecutorCall
    /\ EngineUnchanged

\* execute catches the exception an executor call raised and carries on
ExecuteCatches ==
    /\ stack # <<>>
    /\ stack[Len(stack)].pc = "child_raised"
    /\ stack' = [stack EXCEPT ![Len(stack)] = [@ EXCEPT !.pc = "executing", !.pending_exc = ""]]
    /\ UNCHANGED <<start_jobs, added_jobs, last_run, runs_started>>
    /\ executor_call' = NoExecutorCall
    /\ EngineUnchanged

\* the paths an execute hands to its executor, and the exceptions an executor
\* call raises into it
ExecutorPaths ==
    IF stack = <<>> THEN {}
    ELSE {job_path_of(stack[Len(stack)].job.state, n) : n \in JobNames}
         \cup {ExternalInputPath(stack[Len(stack)].job.state.identifier, n) : n \in JobNames}
ExecutorExceptions == {Unresolvable, ResolveException, ResolverWithJobPath, ComputationWithInputPath}

\* what the execute that is running now may return
TopResults == IF stack = <<>> THEN {} ELSE ExecuteResults(stack[Len(stack)].job.state)

EngineNext ==
    \/ stack = <<>> /\ \E n \in JobNames, c \in Computations :
          \E o \in OverridesFor(c) : HostRun(n, c, o)
    \/ stack # <<>> /\ \E n \in JobNames, c \in Computations :
          \E o \in OverridesFor(c) : ExecutorRun(n, c, o)
    \/ stack # <<>> /\ \E n \in JobNames, c \in Computations : GetWithoutExecuting(n, c)
    \/ stack # <<>> /\ \E res \in TopResults : ExecuteReturns(res)
    \/ stack # <<>> /\ \E p \in ExecutorPaths, intention \in Computations \cup ExternalInputResolvers :
          ExecutorCall(p, intention)
    \/ stack # <<>> /\ \E exc \in ExecuteExceptions \cup ExecutorExceptions : ExecuteRaises(exc)
    \/ ExecuteCatches

\* The statuses a tracker is constructed with: what storage held for the path
\* after earlier runs
StoredStates ==
    {State(NoError, PROGRESSING, ABSENT, 0, Null, Null),
     State(ErrorRaw("simple", "boom"), STOPPED, UNHANDLED_FAILURE, 0, Null, Null),
     State(ErrorRaw("custom", "boom"), STOPPED, HANDLED_FAILURE, 0, Null, Null)}

job_before_from(p, state) ==
    Job(Result(state, "", NotGiven, NotGiven), p[Len(p)], "plain",
        ComputationState(state, WorkflowIdentifier, p,
                         IF state.error.kind = "None" THEN NoError
                         ELSE resolve_error(default_error_resolver, state.error)))

\* nothing stored yet, or the same kind of state stored for a job, its child
\* and a job that is not run
StartJobs ==
    {<<>>}
    \cup {[q \in {<<"a">>, <<"a", "a">>, <<"b">>} |->
              JobStatus(q[Len(q)], <<job_before_from(q, s)>>, <<>>)] :
            s \in StoredStates}

\* a JobTracker as constructed, and an Engine that has not run yet
EngineInit ==
    /\ start_jobs \in StartJobs
    /\ added_jobs = <<>>
    /\ stack = <<>>
    /\ last_run = NoRun
    /\ runs_started = 0
    /\ executor_call = NoExecutorCall

EngineIdle ==
    /\ start_jobs = <<>>
    /\ added_jobs = <<>>
    /\ stack = <<>>
    /\ last_run = NoRun
    /\ runs_started = 0
    /\ executor_call = NoExecutorCall

(***************************************************************************)
(* JobTracker over JobStatus objects.  A JobStatus is a mutable object     *)
(* (add_execution appends to its list), so the statuses live in a heap     *)
(* and _start_jobs / _added_jobs map a path to the object stored there.    *)
(***************************************************************************)
\* the delta_base_from and must_be_greater_than the dates are asked with
DeltaBases == {Instant(1)}
GreaterThans == {Instant(1), Instant(2)}

\* Jobs whose Result carries scheduling hints
TrackerHints == {<<Null, Instant(2)>>, <<NotGiven, Duration(0)>>}
TrackerJobs ==
    {make_job(JobPath(WorkflowIdentifier, <<>>, "a"),
              <<Result(fresh(0), "", h[1], h[2])>>, NoError, "plain", 0) :
        h \in TrackerHints}
HintJob(d, s) ==
    make_job(JobPath(WorkflowIdentifier, <<>>, "a"), <<Result(fresh(0), "", d, s)>>,
             NoError, "plain", 0)

\* the job paths statuses are asked for, and the paths and depths of jobs()
TrackerJobPaths ==
    {JobPath(WorkflowIdentifier, <<>>, "a"), JobPath(WorkflowIdentifier, <<"a">>, "b"),
     JobPath(WorkflowIdentifier, <<>>, "b")}
QueryPaths == {<<>>, <<"a">>}
QueryLevels == {-1, 1, 2}

\* the date getter that also drops an instant equal to must_be_greater_than
earliest_of_drops_equal(self, field, delta_base_from, must_be_greater_than) ==
    LET latest == latest_execution(self)
        value == IF field = "due_at" THEN latest[1].result.due_at
                 ELSE latest[1].result.schedule_next_latest_at
    IN IF latest = <<>> THEN Null
       ELSE IF value.kind \in {"NotGiven", "None"} THEN Null
       ELSE LET at == IF value.kind = "duration"
                          THEN Instant(delta_base_from.v + value.v) ELSE value
            IN IF at.v <= must_be_greater_than.v THEN Null ELSE at

\* the date getter that looks, from the latest execution back to job_before,
\* for the first Result that carries the hint
earliest_of_last_given(self, field, delta_base_from, must_be_greater_than) ==
    LET jobs_known == self.job_before \o self.job_executions
        hint(job) == IF field = "due_at" THEN job.result.due_at
                     ELSE job.result.schedule_next_latest_at
        given == {i \in 1..Len(jobs_known) :
                     hint(jobs_known[i]).kind \notin {"NotGiven", "None"}}
    IN IF given = {} THEN Null
       ELSE LET value == hint(jobs_known[CHOOSE i \in given : \A j \in given : j <= i])
                at == IF value.kind = "duration"
                          THEN Instant(delta_base_from.v + value.v) ELSE value
            IN IF at.v < must_be_greater_than.v THEN Null ELSE at

\* JobStatus.earliest_due_at / earliest_next_schedule_at on the hint `value`
\* of the latest execution; Null for None
earliest_of(self, field, delta_base_from, must_be_greater_than) ==
    LET latest == latest_execution(self)
        value == IF field = "due_at" THEN latest[1].result.due_at
                 ELSE latest[1].result.schedule_next_latest_at
    IN IF latest = <<>> THEN Null
       ELSE IF value.kind \in {"NotGiven", "None"} THEN Null
       ELSE LET at == IF value.kind = "duration"
                          THEN Instant(delta_base_from.v + value.v) ELSE value
            IN IF at.v < must_be_greater_than.v THEN Null ELSE at

\* the merge with _start_jobs winning for a path present in both
merged_jobs_start_wins(start, added) ==
    [k \in DOMAIN start \cup DOMAIN added |->
        IF k \in DOMAIN start THEN start[k] ELSE added[k]]

\* JobTracker.jobs line 332: {**self._start_jobs, **self._added_jobs}
merged_jobs(start, added) ==
    [k \in DOMAIN start \cup DOMAIN added |->
        IF k \in DOMAIN added THEN added[k] ELSE start[k]]

\* k[:len(p)] == p and the remainder k[len(p):]
HasPrefix(k, p) == Len(k) >= Len(p) /\ SubSeq(k, 1, Len(p)) = p

\* JobTracker.jobs
jobs(start, added, p, max_levels) ==
    LET all == merged_jobs(start, added)
        keep == {k \in DOMAIN all :
                    /\ HasPrefix(k, p)
                    /\ \/ max_levels = -1
                       \/ 0 < Len(k) - Len(p) /\ Len(k) - Len(p) <= max_levels}
    IN [k \in keep |-> all[k]]

\* JobTracker._get_earliest_date on the values the date getters returned
get_earliest_date(vals) ==
    LET found == {val \in vals : val # Null}
    IN IF found = {} THEN Null
       ELSE CHOOSE m \in found : \A o \in found : m.v <= o.v

\* get_date_getters of JobTracker.earliest_due_at / earliest_next_schedule_at,
\* each getter called as _get_earliest_date calls it: the value of every
\* status of jobs(max_levels=-1), by the path it is tracked at
date_getters(objs, start, added, field, delta_base_from, must_be_greater_than) ==
    LET all == jobs(start, added, <<>>, -1)
    IN [k \in DOMAIN all |->
           earliest_of(objs[all[k]], field, delta_base_from, must_be_greater_than)]

\* JobTracker.earliest_due_at / earliest_next_schedule_at
tracker_earliest(objs, start, added, field, delta_base_from, must_be_greater_than) ==
    LET each == date_getters(objs, start, added, field, delta_base_from,
                             must_be_greater_than)
    IN get_earliest_date({each[k] : k \in DOMAIN each})

\* clone that hands back the object it was called on
clone_status_same_object(objs, id) == [objs |-> objs, id |-> id]

\* JobStatus.clone on the object `id`: a new object with the name and
\* job_before of the original, every execution added to it in turn
clone_status(objs, id) ==
    [objs |-> Append(objs, JobStatus_clone(objs[id])), id |-> Len(objs) + 1]

\* job_status that stores and returns the start status itself
job_status_without_clone(objs, start, added, job_path) ==
    LET p == path(job_path) IN
    IF p \in DOMAIN added
        THEN [objs |-> objs, added |-> added, id |-> added[p]]
    ELSE IF p \in DOMAIN start
        THEN [objs |-> objs, added |-> Put(added, p, start[p]), id |-> start[p]]
    ELSE [objs |-> Append(objs, fresh_job_status(job_path.job_name)),
          added |-> Put(added, p, Len(objs) + 1), id |-> Len(objs) + 1]

\* JobTracker.job_status over objects: the heap, _added_jobs and the object
\* returned
job_status_object(objs, start, added, job_path) ==
    LET p == path(job_path) IN
    IF p \in DOMAIN added
        THEN [objs |-> objs, added |-> added, id |-> added[p]]
    ELSE IF p \in DOMAIN start
        THEN LET c == clone_status(objs, start[p])
             IN [objs |-> c.objs, added |-> Put(added, p, c.id), id |-> c.id]
    ELSE [objs |-> Append(objs, fresh_job_status(job_path.job_name)),
          added |-> Put(added, p, Len(objs) + 1), id |-> Len(objs) + 1]

NoTrackerCall ==
    [op |-> "none", job_path |-> JobPath("", <<>>, ""), p |-> <<>>, levels |-> 0,
     id |-> 0, job |-> <<>>, field |-> "", base |-> Null, gt |-> Null,
     objs_before |-> <<>>, added_before |-> <<>>,
     out_id |-> 0, out_jobs |-> <<>>, out_each |-> <<>>, out_date |-> Null]

\* a call made on the tracker or on a status, with the heap and _added_jobs
\* it found
TrackerCall(op) ==
    [NoTrackerCall EXCEPT !.op = op, !.objs_before = statuses,
                          !.added_before = added_refs]

\* the objects a caller can have got hold of through job_status or clone
Obtained ==
    {id \in 1..Len(statuses) :
        \/ \E k \in DOMAIN added_refs : added_refs[k] = id
        \/ \A k \in DOMAIN start_refs : start_refs[k] # id}

\* one call is made, and what it returned looked at, before the next
TrackerReady == tracker_call.op = "none"

TrackerUnchanged ==
    UNCHANGED <<results_vars, engine_vars, lock_vars, fn_vars, storage_vars, job_vars,
                upsert_vars, future_vars>>

\* job_tracker.job_status(job_path)
JobStatusCall(job_path) ==
    LET r == job_status_object(statuses, start_refs, added_refs, job_path) IN
    /\ TrackerReady
    /\ Len(r.objs) <= MaxStatuses
    /\ statuses' = r.objs
    /\ added_refs' = r.added
    /\ tracker_call' = [TrackerCall("job_status") EXCEPT
                           !.job_path = job_path, !.p = path(job_path), !.out_id = r.id]
    /\ UNCHANGED <<start_refs, given_start, appends_made>>
    /\ TrackerUnchanged

\* status.clone() on any status of the heap
CloneStatusCall(id) ==
    LET c == clone_status(statuses, id) IN
    /\ TrackerReady
    /\ Len(c.objs) <= MaxStatuses
    /\ statuses' = c.objs
    /\ tracker_call' = [TrackerCall("clone") EXCEPT !.id = id, !.out_id = c.id]
    /\ UNCHANGED <<start_refs, added_refs, given_start, appends_made>>
    /\ TrackerUnchanged

\* status.add_execution(job) on a status the caller obtained
AddExecutionCall(id, job) ==
    /\ TrackerReady
    /\ appends_made < MaxAppends
    /\ id \in Obtained
    /\ statuses' = [statuses EXCEPT ![id] = add_execution(@, job)]
    /\ appends_made' = appends_made + 1
    /\ tracker_call' = [TrackerCall("add_execution") EXCEPT !.id = id, !.job = <<job>>]
    /\ UNCHANGED <<start_refs, added_refs, given_start>>
    /\ TrackerUnchanged

\* What Engine.run does to the tracker: line 204 job_status(job_path), line
\* 248 job_status.add_execution(job_after)
RunAppends(job_path, job) ==
    LET r == job_status_object(statuses, start_refs, added_refs, job_path) IN
    /\ TrackerReady
    /\ appends_made < MaxAppends
    /\ Len(r.objs) <= MaxStatuses
    /\ statuses' = [r.objs EXCEPT ![r.id] = add_execution(@, job)]
    /\ added_refs' = r.added
    /\ appends_made' = appends_made + 1
    /\ tracker_call' = [TrackerCall("run") EXCEPT
                           !.job_path = job_path, !.p = path(job_path),
                           !.id = r.id, !.out_id = r.id, !.job = <<job>>]
    /\ UNCHANGED <<start_refs, given_start>>
    /\ TrackerUnchanged

\* job_tracker.jobs(path=p, max_levels=max_levels)
JobsCall(p, max_levels) ==
    /\ TrackerReady
    /\ tracker_call' = [TrackerCall("jobs") EXCEPT
                           !.p = p, !.levels = max_levels,
                           !.out_jobs = jobs(start_refs, added_refs, p, max_levels)]
    /\ UNCHANGED <<statuses, start_refs, added_refs, given_start, appends_made>>
    /\ TrackerUnchanged

\* job_tracker.earliest_due_at(...) / earliest_next_schedule_at(...)
EarliestCall(field, delta_base_from, must_be_greater_than) ==
    /\ TrackerReady
    /\ tracker_call' = [TrackerCall(field) EXCEPT
                           !.field = field, !.base = delta_base_from,
                           !.gt = must_be_greater_than,
                           !.out_each = date_getters(statuses, start_refs, added_refs,
                                            field, delta_base_from, must_be_greater_than),
                           !.out_date = tracker_earliest(statuses, start_refs, added_refs,
                                            field, delta_base_from, must_be_greater_than)]
    /\ UNCHANGED <<statuses, start_refs, added_refs, given_start, appends_made>>
    /\ TrackerUnchanged

\* the caller is done with what the call returned
TrackerReturn ==
    /\ tracker_call.op # "none"
    /\ tracker_call' = NoTrackerCall
    /\ UNCHANGED <<statuses, start_refs, added_refs, given_start, appends_made>>
    /\ TrackerUnchanged

TrackerNext ==
    \/ TrackerReturn
    \/ TrackerReady /\ \E job_path \in TrackerJobPaths : JobStatusCall(job_path)
    \/ TrackerReady /\ \E id \in 1..Len(statuses) : CloneStatusCall(id)
    \/ TrackerReady /\ \E id \in 1..Len(statuses), job \in TrackerJobs : AddExecutionCall(id, job)
    \/ TrackerReady /\ \E job_path \in TrackerJobPaths, job \in TrackerJobs : RunAppends(job_path, job)
    \/ TrackerReady /\ \E p \in QueryPaths, max_levels \in QueryLevels : JobsCall(p, max_levels)
    \/ TrackerReady /\ \E field \in {"due_at", "schedule_next_latest_at"},
          delta_base_from \in DeltaBases, must_be_greater_than \in GreaterThans :
          EarliestCall(field, delta_base_from, must_be_greater_than)

\* the _start_jobs a tracker is constructed with: none; a status for job "a"
\* that has not run; a status at the root path and one for job "a", both with
\* an execution; a status for job "a" with an execution of its own
GivenStartJobs ==
    {<<>>,
     <<JobStatus("a", <<HintJob(Instant(2), Duration(1))>>, <<>>)>>,
     <<JobStatus("", <<>>, <<HintJob(Instant(1), Instant(1))>>),
       JobStatus("a", <<HintJob(NotGiven, NotGiven)>>,
                 <<HintJob(Duration(1), Instant(1))>>)>>,
     <<JobStatus("a", <<HintJob(NotGiven, NotGiven)>>,
                 <<HintJob(Null, Instant(1))>>)>>}

\* the path a given start status is stored at
StartPath(status) == IF status.name = "" THEN <<>> ELSE <<status.name>>

\* JobTracker(start_jobs=...)
TrackerInit ==
    /\ given_start \in GivenStartJobs
    /\ statuses = given_start
    /\ start_refs = [k \in {StartPath(given_start[i]) : i \in 1..Len(given_start)} |->
                        CHOOSE i \in 1..Len(given_start) : StartPath(given_start[i]) = k]
    /\ added_refs = <<>>
    /\ appends_made = 0
    /\ tracker_call = NoTrackerCall

TrackerIdle ==
    /\ given_start = <<>>
    /\ statuses = <<>>
    /\ start_refs = <<>>
    /\ added_refs = <<>>
    /\ appends_made = 0
    /\ tracker_call = NoTrackerCall

(***************************************************************************)
(* State.clone and StoredInfo.merge applied, call after call, to the       *)
(* StoredInfo of one path.                                                 *)
(***************************************************************************)
\* the states a computation is stored in and a Result is built on
FnStates ==
    {State(e, xr[1], xr[2], c, d, s) :
        e \in {NoError, ErrorRaw("simple", "boom")},
        xr \in {<<PROGRESSING, ABSENT>>, <<STOPPED, UNHANDLED_FAILURE>>},
        c \in CreatedAts, d \in StateHints, s \in StateHints}

\* the Results handed to merge: any state, created at any time, with any hints
FnResults ==
    {Result(st, "", d, s) :
        st \in {x \in FnStates : x.due_at = x.schedule_next_latest_at},
        d \in ScheduleBy, s \in ScheduleBy}

NoFnCall ==
    [fn |-> "none", self |-> fresh(0), error |-> NotGivenError,
     execution_state |-> NotGivenEnum, result_state |-> NotGivenEnum,
     due_at |-> NotGiven, schedule_next_latest_at |-> NotGiven, result |-> NoResult]

FnUnchanged ==
    UNCHANGED <<results_vars, engine_vars, lock_vars, tracker_vars, storage_vars, job_vars,
                upsert_vars, future_vars>>

\* fn_stored.state.clone(error=..., execution_state=..., ...)
CloneCall(error, execution_state, result_state, due_at, schedule_next_latest_at) ==
    /\ fn_call.fn = "none"
    /\ fn_out' = clone(fn_stored.state, error, execution_state, result_state,
                       due_at, schedule_next_latest_at)
    /\ fn_call' = [NoFnCall EXCEPT !.fn = "clone", !.self = fn_stored.state,
                      !.error = error, !.execution_state = execution_state,
                      !.result_state = result_state, !.due_at = due_at,
                      !.schedule_next_latest_at = schedule_next_latest_at]
    /\ UNCHANGED fn_stored
    /\ FnUnchanged

\* fn_stored = fn_stored.merge(res): the merged StoredInfo is what is stored
\* from now on
MergeCall(res) ==
    /\ fn_call.fn = "none"
    /\ fn_out' = merge(fn_stored, res).state
    /\ fn_stored' = merge(fn_stored, res)
    /\ fn_call' = [NoFnCall EXCEPT !.fn = "merge", !.self = fn_stored.state,
                      !.result = res]
    /\ FnUnchanged

\* the caller is done with what the call returned and makes the next call
FnReturn ==
    /\ fn_call.fn # "none"
    /\ fn_call' = NoFnCall
    /\ fn_out' = fn_stored.state
    /\ UNCHANGED fn_stored
    /\ FnUnchanged

FnNext ==
    \/ FnReturn
    \/ fn_call.fn = "none" /\ \E error \in {NotGivenError, NoError, ErrorRaw("custom", "bang")},
          execution_state \in {NotGivenEnum, PENDING, STOPPED},
          result_state \in {NotGivenEnum, ABSENT, SUCCESS},
          due_at \in ScheduleBy, schedule_next_latest_at \in ScheduleBy :
          CloneCall(error, execution_state, result_state, due_at, schedule_next_latest_at)
    \/ fn_call.fn = "none" /\ \E res \in FnResults : MergeCall(res)

FnInit ==
    /\ fn_stored \in {StoredInfo(st) : st \in FnStates}
    /\ fn_call = NoFnCall
    /\ fn_out = fn_stored.state

FnIdle ==
    /\ fn_stored = StoredInfo(fresh(0))
    /\ fn_call = NoFnCall
    /\ fn_out = fresh(0)

(***************************************************************************)
(* MemoryStorage: workflow information and computations by identifier      *)
(***************************************************************************)
\* the strings make_identifier returns, and an identifier a caller made up
NewIdentifiers == {"01H1", "01H2"}
CallerIdentifiers == {"__unknown__"}

\* NewWorkflowSaver objects, by the information they hold
Savers == {"one", "two"}

\* state.WorkflowInformation
WorkflowInformation(workflow_code, workflow_version, information) ==
    [workflow_code |-> workflow_code, workflow_version |-> workflow_version,
     information |-> information]

\* workflow_saver.for_storage(identifier)
for_storage(saver, identifier) ==
    WorkflowInformation("test_workflow", 1, <<saver, identifier>>)

\* the paths and StoredInfo objects given to upsert_computations
StoragePaths == {<<"path", "one">>, <<"path", "two">>}
GivenStoredInfos == {StoredInfo(fresh(0)), StoredInfo(fresh(1))}
StoredInfoMaps ==
    {<<>>,
     (<<"path", "one">> :> StoredInfo(fresh(0))),
     (<<"path", "two">> :> StoredInfo(fresh(1))),
     (<<"path", "one">> :> StoredInfo(fresh(1)) @@ <<"path", "two">> :> StoredInfo(fresh(0)))}

\* errors.WorkflowNotFound
WorkflowNotFound(identifier) ==
    [kind |-> "WorkflowNotFound", identifier |-> identifier, path |-> <<>>, error |-> ""]

\* what a storage method did: the exception it raised or the value it
\* returned, and _workflows and _computations as it left them
StorageOutcome(raised, out, workflows, computations) ==
    [raised |-> raised, out |-> out, workflows |-> workflows, computations |-> computations]

\* MemoryStorage.retrieve_workflow_information
retrieve_workflow_information(workflows, computations, identifier) ==
    IF identifier \notin DOMAIN workflows
        THEN StorageOutcome(WorkflowNotFound(identifier), <<>>, workflows, computations)
        ELSE StorageOutcome(NoException, workflows[identifier], workflows, computations)

\* the whole storage replaced by the one workflow stored
upsert_workflow_information_alone(workflows, computations, identifier, workflow_information) ==
    StorageOutcome(NoException, <<>>, (identifier :> workflow_information), computations)

\* MemoryStorage.upsert_workflow_information
upsert_workflow_information(workflows, computations, identifier, workflow_information) ==
    StorageOutcome(NoException, <<>>, Put(workflows, identifier, workflow_information),
                   computations)

\* StorageBase.store_new_workflow with identifier the string
\* _new_identifier_str returned
store_new_workflow(workflows, computations, identifier, workflow_saver) ==
    [upsert_workflow_information(workflows, computations, identifier,
                                 for_storage(workflow_saver, identifier))
        EXCEPT !.out = identifier]

\* retrieve_computations handing out the dict the storage keeps
retrieve_computations_no_copy(workflows, computations, identifier) ==
    IF identifier \notin DOMAIN workflows
        THEN [copied |-> FALSE, raised |-> WorkflowNotFound(identifier), out |-> <<>>,
              workflows |-> workflows, computations |-> computations]
        ELSE [copied |-> FALSE, raised |-> NoException,
              out |-> IF identifier \in DOMAIN computations
                          THEN computations[identifier] ELSE <<>>,
              workflows |-> workflows, computations |-> computations]

\* MemoryStorage.retrieve_computations: dict(self._computations.get(identifier) or {});
\* copied says that the dict returned is a new object
retrieve_computations(workflows, computations, identifier) ==
    IF identifier \notin DOMAIN workflows
        THEN [copied |-> TRUE, raised |-> WorkflowNotFound(identifier), out |-> <<>>,
              workflows |-> workflows, computations |-> computations]
        ELSE [copied |-> TRUE, raised |-> NoException,
              out |-> IF identifier \in DOMAIN computations
                          THEN computations[identifier] ELSE <<>>,
              workflows |-> workflows, computations |-> computations]

\* the loop of upsert_computations over stored_infos.items()
RECURSIVE store_items(_, _)
store_items(kept, stored_infos) ==
    IF DOMAIN stored_infos = {} THEN kept
    ELSE LET p == CHOOSE q \in DOMAIN stored_infos : TRUE
         IN store_items(Put(kept, p, stored_infos[p]),
                        [q \in DOMAIN stored_infos \ {p} |-> stored_infos[q]])

\* upsert_computations without the test for a registered identifier
upsert_computations_unchecked(workflows, computations, identifier, stored_infos) ==
    LET present == IF identifier \in DOMAIN computations
                       THEN computations ELSE Put(computations, identifier, <<>>)
    IN StorageOutcome(NoException, <<>>, workflows,
                      Put(present, identifier,
                          store_items(present[identifier], stored_infos)))

\* MemoryStorage.upsert_computations
upsert_computations(workflows, computations, identifier, stored_infos) ==
    IF identifier \notin DOMAIN workflows
        THEN StorageOutcome(WorkflowNotFound(identifier), <<>>, workflows, computations)
        ELSE LET present == IF identifier \in DOMAIN computations
                                THEN computations ELSE Put(computations, identifier, <<>>)
             IN StorageOutcome(NoException, <<>>, workflows,
                               Put(present, identifier,
                                   store_items(present[identifier], stored_infos)))

NoStorageCall ==
    [op |-> "none", identifier |-> "", saver |-> "", workflow_information |-> <<>>,
     stored_infos |-> <<>>, raised |-> NoException, out |-> <<>>, copied |-> FALSE,
     changed |-> FALSE, for_storage_args |-> <<>>, made_before |-> {},
     workflows_before |-> <<>>, computations_before |-> <<>>]

\* a call of a storage method, with the storage as the call found it
StorageCall(op, identifier, outcome) ==
    [NoStorageCall EXCEPT !.op = op, !.identifier = identifier,
                          !.raised = outcome.raised, !.out = outcome.out,
                          !.made_before = identifiers_made,
                          !.workflows_before = _workflows,
                          !.computations_before = _computations]

StorageReady == storage_call.op = "none"

StorageUnchanged ==
    UNCHANGED <<results_vars, engine_vars, lock_vars, fn_vars, tracker_vars, job_vars,
                upsert_vars, future_vars>>

\* the identifiers a caller has: those store_new_workflow returned and those
\* it made up
KnownToCallers == identifiers_made \cup CallerIdentifiers

\* store.store_new_workflow(workflow_saver); _new_identifier_str returns a
\* string that no identifier in use has
StoreNewWorkflow(identifier, workflow_saver) ==
    /\ StorageReady
    /\ identifier \in NewIdentifiers \ identifiers_made
    /\ LET outcome == store_new_workflow(_workflows, _computations, identifier,
                                         workflow_saver)
       IN /\ storage_call' = [StorageCall("store_new_workflow", identifier, outcome)
                                 EXCEPT !.saver = workflow_saver,
                                        !.for_storage_args = <<identifier>>]
          /\ _workflows' = outcome.workflows
          /\ _computations' = outcome.computations
    /\ identifiers_made' = identifiers_made \cup {identifier}
    /\ stored_under' = stored_under \cup {identifier}
    /\ UNCHANGED last_listed
    /\ StorageUnchanged

\* store.retrieve_workflow_information(identifier=identifier)
RetrieveWorkflowInformation(identifier) ==
    /\ StorageReady
    /\ LET outcome == retrieve_workflow_information(_workflows, _computations, identifier)
       IN /\ storage_call' = StorageCall("retrieve_workflow_information", identifier,
                                         outcome)
          /\ _workflows' = outcome.workflows
          /\ _computations' = outcome.computations
    /\ UNCHANGED <<identifiers_made, stored_under, last_listed>>
    /\ StorageUnchanged

\* store.upsert_workflow_information(identifier=..., workflow_information=...)
UpsertWorkflowInformation(identifier, workflow_information) ==
    /\ StorageReady
    /\ LET outcome == upsert_workflow_information(_workflows, _computations, identifier,
                                                  workflow_information)
       IN /\ storage_call' = [StorageCall("upsert_workflow_information", identifier,
                                          outcome)
                                 EXCEPT !.workflow_information = workflow_information]
          /\ _workflows' = outcome.workflows
          /\ _computations' = outcome.computations
    /\ stored_under' = stored_under \cup {identifier}
    /\ UNCHANGED <<identifiers_made, last_listed>>
    /\ StorageUnchanged

\* store.retrieve_computations(identifier=identifier)
RetrieveComputations(identifier) ==
    /\ StorageReady
    /\ LET outcome == retrieve_computations(_workflows, _computations, identifier)
       IN /\ storage_call' = [StorageCall("retrieve_computations", identifier, outcome)
                                 EXCEPT !.copied = outcome.copied]
          /\ _workflows' = outcome.workflows
          /\ _computations' = outcome.computations
    /\ UNCHANGED <<identifiers_made, stored_under, last_listed>>
    /\ StorageUnchanged

\* the caller sets a path of the map retrieve_computations returned; a map
\* that is the storage's own dict changes there too
ChangeRetrieved(p, info) ==
    /\ storage_call.op = "retrieve_computations"
    /\ storage_call.raised = NoException
    /\ ~storage_call.changed
    /\ storage_call' = [storage_call EXCEPT !.changed = TRUE,
                                            !.out = Put(@, p, info)]
    /\ _computations' = IF storage_call.copied THEN _computations
                        ELSE Put(_computations, storage_call.identifier,
                                 Put(storage_call.out, p, info))
    /\ UNCHANGED <<_workflows, identifiers_made, stored_under, last_listed>>
    /\ StorageUnchanged

\* store.upsert_computations(identifier=..., stored_infos=...)
UpsertComputations(identifier, stored_infos) ==
    /\ StorageReady
    /\ LET outcome == upsert_computations(_workflows, _computations, identifier,
                                          stored_infos)
       IN /\ storage_call' = [StorageCall("upsert_computations", identifier, outcome)
                                 EXCEPT !.stored_infos = stored_infos]
          /\ _workflows' = outcome.workflows
          /\ _computations' = outcome.computations
    /\ last_listed' =
          IF identifier \notin stored_under THEN last_listed
          ELSE [w \in DOMAIN last_listed \cup {identifier} |->
                  IF w # identifier THEN last_listed[w]
                  ELSE [p \in (IF w \in DOMAIN last_listed
                                  THEN DOMAIN last_listed[w] ELSE {})
                              \cup DOMAIN stored_infos |->
                          IF p \in DOMAIN stored_infos THEN stored_infos[p]
                          ELSE last_listed[w][p]]]
    /\ UNCHANGED <<identifiers_made, stored_under>>
    /\ StorageUnchanged

\* the caller is done with what the call returned
StorageReturn ==
    /\ storage_call.op # "none"
    /\ storage_call' = NoStorageCall
    /\ UNCHANGED <<_workflows, _computations, identifiers_made, stored_under, last_listed>>
    /\ StorageUnchanged

StorageNext ==
    \/ StorageReturn
    \/ \E identifier \in NewIdentifiers, workflow_saver \in Savers :
          StoreNewWorkflow(identifier, workflow_saver)
    \/ \E identifier \in KnownToCallers : RetrieveWorkflowInformation(identifier)
    \/ \E identifier \in KnownToCallers, workflow_saver \in Savers :
          UpsertWorkflowInformation(identifier, for_storage(workflow_saver, identifier))
    \/ \E identifier \in KnownToCallers : RetrieveComputations(identifier)
    \/ \E p \in StoragePaths, info \in GivenStoredInfos : ChangeRetrieved(p, info)
    \/ \E identifier \in KnownToCallers, stored_infos \in StoredInfoMaps :
          UpsertComputations(identifier, stored_infos)

\* MemoryStorage.__init__
StorageInit ==
    /\ _workflows = <<>>
    /\ _computations = <<>>
    /\ identifiers_made = {}
    /\ stored_under = {}
    /\ last_listed = <<>>
    /\ storage_call = NoStorageCall

(***************************************************************************)
(* Path names, and the properties of a Job and its ComputationState        *)
(***************************************************************************)
\* characters of a name: ASCII letters, a digit, underscore, hyphen, dot,
\* space, tab, newline and a letter outside ASCII; a name is a sequence of them
Letters == {"a", "Z"}
Digits == {"0"}
WhiteSpace == {"SPACE", "TAB", "NEWLINE"}
Characters == Letters \cup Digits \cup {"_", "-", ".", "E_ACUTE"} \cup WhiteSpace

\* the names of up to MaxNameLen characters
Names == UNION {[1..n -> Characters] : n \in 0..MaxNameLen}

\* \w under re.ASCII
IsWord(c) == c \in Letters \cup Digits \cup {"_"}

\* .*[.\s] matched from the start of value: the dot of the pattern matches
\* any character but a newline, \s matches white space
LookAhead(value) ==
    \E i \in 1..Len(value) :
        /\ value[i] \in {"."} \cup WhiteSpace
        /\ \A j \in 1..(i - 1) : value[j] # "NEWLINE"

\* [\w-]+$ matched from the start of value: $ matches at the end and before
\* a newline that ends the string
Body(value) ==
    \E n \in 1..Len(value) :
        /\ \A j \in 1..n : IsWord(value[j]) \/ value[j] = "-"
        /\ \/ n = Len(value)
           \/ n = Len(value) - 1 /\ value[Len(value)] = "NEWLINE"

\* the pattern without its (?!.*[.\s])
non_empty_path_element_no_lookahead(value) == Body(value)

\* regexes["non_empty_path_element"].match(value) with ^(?!.*[.\s])[\w-]+$
non_empty_path_element(value) == ~LookAhead(value) /\ Body(value)

\* errors.InvalidJobName / errors.InvalidExternalInputName
InvalidJobName(wanted) ==
    [kind |-> "InvalidJobName", identifier |-> "", path |-> <<>>, error |-> wanted]
InvalidExternalInputName(wanted) ==
    [kind |-> "InvalidExternalInputName", identifier |-> "", path |-> <<>>, error |-> wanted]

\* what constructing a path did: the exception the validator raised, or the
\* object made
Constructed(raised, out) == [raised |-> raised, out |-> out]

\* JobPath(identifier=..., prefix=..., job_name=...) with _validate_job_name
new_JobPath(identifier, prefix, job_name) ==
    IF ~non_empty_path_element(job_name)
        THEN Constructed(InvalidJobName(job_name), <<>>)
        ELSE Constructed(NoException, JobPath(identifier, prefix, job_name))

\* ExternalInputPath(identifier=..., external_input_name=...) with
\* _validate_external_input_name
new_ExternalInputPath(identifier, external_input_name) ==
    IF ~non_empty_path_element(external_input_name)
        THEN Constructed(InvalidExternalInputName(external_input_name), <<>>)
        ELSE Constructed(NoException, ExternalInputPath(identifier, external_input_name))

\* ComputationState.job_path
ComputationState_job_path(self, job_name) ==
    new_JobPath(self.identifier, self.path, job_name)

\* ComputationState.external_input_path
ComputationState_external_input_path(self, external_input_name) ==
    new_ExternalInputPath(self.identifier, external_input_name)

\* Job.success
success_of(job) == job.state.result_state = SUCCESS

\* Job.cancelled
cancelled_of(job) == job.state.result_state = CANCELLED

\* the jobs examined: a ComputationState of every execution_state and
\* result_state, with no error, a SimpleError and an Error of another class
ExaminedErrors == {NoError, Error("simple", "boom"), Error("custom", "boom")}
ExaminedPaths == {<<>>, <<<<"a">>>>}
ExaminedJobs ==
    {Job(Result(State(NoError, x, r, 0, Null, Null), "", NotGiven, NotGiven), "a", "plain",
         ComputationState(State(NoError, x, r, 0, Null, Null), WorkflowIdentifier, p, e)) :
        x \in ExecutionState, r \in ResultState, p \in ExaminedPaths, e \in ExaminedErrors}

NoJobCall ==
    [op |-> "none", name |-> <<>>, done |-> FALSE, success |-> FALSE, cancelled |-> FALSE,
     exception |-> NoException, raised |-> NoException, out |-> <<>>]

JobReady == job_call.op = "none"

JobUnchanged ==
    UNCHANGED <<results_vars, engine_vars, lock_vars, fn_vars, tracker_vars, storage_vars,
                upsert_vars, future_vars>>

\* job.done, job.success, job.cancelled and job.exception are read
ReadJob ==
    /\ JobReady
    /\ job_call' = [NoJobCall EXCEPT !.op = "job", !.done = done(examined_job),
                                     !.success = success_of(examined_job),
                                     !.cancelled = cancelled_of(examined_job),
                                     !.exception = exception(examined_job)]
    /\ UNCHANGED examined_job
    /\ JobUnchanged

\* job.state.exception is read
ReadStateException ==
    /\ JobReady
    /\ job_call' = [NoJobCall EXCEPT !.op = "state.exception",
                        !.exception = ComputationState_exception(examined_job.state)]
    /\ UNCHANGED examined_job
    /\ JobUnchanged

\* JobPath(identifier=..., prefix=job.state.path, job_name=name)
NewJobPath(name) ==
    /\ JobReady
    /\ LET made == new_JobPath(examined_job.state.identifier, examined_job.state.path, name)
       IN job_call' = [NoJobCall EXCEPT !.op = "JobPath", !.name = name,
                                        !.raised = made.raised, !.out = made.out]
    /\ UNCHANGED examined_job
    /\ JobUnchanged

\* ExternalInputPath(identifier=..., external_input_name=name)
NewExternalInputPath(name) ==
    /\ JobReady
    /\ LET made == new_ExternalInputPath(examined_job.state.identifier, name)
       IN job_call' = [NoJobCall EXCEPT !.op = "ExternalInputPath", !.name = name,
                                        !.raised = made.raised, !.out = made.out]
    /\ UNCHANGED examined_job
    /\ JobUnchanged

\* job.state.job_path(name)
StateJobPath(name) ==
    /\ JobReady
    /\ LET made == ComputationState_job_path(examined_job.state, name)
       IN job_call' = [NoJobCall EXCEPT !.op = "job_path", !.name = name,
                                        !.raised = made.raised, !.out = made.out]
    /\ UNCHANGED examined_job
    /\ JobUnchanged

\* the caller is done with what was read or made
JobReturn ==
    /\ job_call.op # "none"
    /\ job_call' = NoJobCall
    /\ UNCHANGED examined_job
    /\ JobUnchanged

JobNext ==
    \/ JobReturn
    \/ ReadJob
    \/ ReadStateException
    \/ JobReady /\ \E name \in Names : NewJobPath(name)
    \/ JobReady /\ \E name \in Names : NewExternalInputPath(name)
    \/ JobReady /\ \E name \in Names : StateJobPath(name)

JobInit ==
    /\ examined_job \in ExaminedJobs
    /\ job_call = NoJobCall

JobIdle ==
    /\ examined_job = Job(Result(fresh(0), "", NotGiven, NotGiven), "a", "plain",
                          ComputationState(fresh(0), WorkflowIdentifier, <<>>, NoError))
    /\ job_call = NoJobCall

(***************************************************************************)
(* MemoryStorage.upsert_computations called by several threads, one step   *)
(* per interleaving point. Here _computations holds, for an identifier,    *)
(* the dict object stored under it, and computation_dicts that object's    *)
(* items.                                                                  *)
(*                                                                         *)
(*   140  if identifier not in self._workflows: raise      the call        *)
(*   143  if identifier not in self._computations:         pc "present"    *)
(*   144      self._computations[identifier] = {}             "create"     *)
(*   146  for path, stored_info in stored_infos.items():      "item"       *)
(*   147      self._computations[identifier][path] = stored_info  "store"  *)
(***************************************************************************)
UpsertIdentifiers == {"01H1", "__unknown__"}

NoUpsert ==
    [pc |-> "idle", identifier |-> "", stored_infos |-> <<>>, todo |-> <<>>,
     item |-> <<>>, target |-> <<>>, raised |-> NoException]

\* what _computations holds, with every dict object replaced by its items
Dereferenced(computations, dicts) ==
    [w \in DOMAIN computations |-> dicts[computations[w]]]

UpsertUnchanged ==
    UNCHANGED <<results_vars, engine_vars, lock_vars, fn_vars, tracker_vars, job_vars,
                future_vars,
                _workflows, identifiers_made, stored_under, last_listed, storage_call>>

\* a thread calls upsert_computations; lines 140-141
UpsertCall(t, identifier, stored_infos) ==
    /\ upsert_thread[t].pc = "idle"
    /\ upsert_thread' = [upsert_thread EXCEPT ![t] =
          IF identifier \notin DOMAIN _workflows
              THEN [NoUpsert EXCEPT !.pc = "raised", !.identifier = identifier,
                                    !.stored_infos = stored_infos,
                                    !.raised = WorkflowNotFound(identifier)]
              ELSE [NoUpsert EXCEPT !.pc = "present", !.identifier = identifier,
                                    !.stored_infos = stored_infos,
                                    !.todo = stored_infos]]
    /\ UNCHANGED <<_computations, computation_dicts>>
    /\ UpsertUnchanged

\* line 143: if identifier not in self._computations
UpsertCheckPresent(t) ==
    /\ upsert_thread[t].pc = "present"
    /\ upsert_thread' = [upsert_thread EXCEPT ![t].pc =
          IF upsert_thread[t].identifier \notin DOMAIN _computations
              THEN "create" ELSE "item"]
    /\ UNCHANGED <<_computations, computation_dicts>>
    /\ UpsertUnchanged

\* line 144: self._computations[identifier] = {}
UpsertCreate(t) ==
    /\ upsert_thread[t].pc = "create"
    /\ computation_dicts' = Append(computation_dicts, <<>>)
    /\ _computations' = Put(_computations, upsert_thread[t].identifier,
                            Len(computation_dicts) + 1)
    /\ upsert_thread' = [upsert_thread EXCEPT ![t].pc = "item"]
    /\ UpsertUnchanged

\* line 146: the loop takes the next item, or ends and the call returns;
\* line 147: the subscript self._computations[identifier] is evaluated
UpsertItem(t) ==
    /\ upsert_thread[t].pc = "item"
    /\ \/ /\ DOMAIN upsert_thread[t].todo = {}
          /\ upsert_thread' = [upsert_thread EXCEPT ![t].pc = "returned"]
       \/ \E p \in DOMAIN upsert_thread[t].todo :
             upsert_thread' = [upsert_thread EXCEPT
                 ![t].pc = "store", ![t].item = p,
                 ![t].target = _computations[upsert_thread[t].identifier]]
    /\ UNCHANGED <<_computations, computation_dicts>>
    /\ UpsertUnchanged

\* line 147: <dict>[path] = stored_info
UpsertStore(t) ==
    LET self == upsert_thread[t] IN
    /\ self.pc = "store"
    /\ computation_dicts' = [computation_dicts EXCEPT ![self.target] =
                                Put(@, self.item, self.todo[self.item])]
    /\ upsert_thread' = [upsert_thread EXCEPT
          ![t].pc = "item",
          ![t].todo = [q \in DOMAIN self.todo \ {self.item} |-> self.todo[q]]]
    /\ UNCHANGED _computations
    /\ UpsertUnchanged

UpsertNext ==
    \E t \in Threads :
        \/ \E identifier \in UpsertIdentifiers, stored_infos \in StoredInfoMaps :
              UpsertCall(t, identifier, stored_infos)
        \/ UpsertCheckPresent(t)
        \/ UpsertCreate(t)
        \/ UpsertItem(t)
        \/ UpsertStore(t)

\* a storage with the workflow "01H1" stored by store_new_workflow, and either
\* no computations yet or those of an earlier upsert_computations
StoredBefore == (<<"path", "zero">> :> StoredInfo(fresh(0)))
UpsertInit ==
    /\ _workflows = store_new_workflow(<<>>, <<>>, "01H1", "one").workflows
    /\ identifiers_made = {"01H1"}
    /\ stored_under = {"01H1"}
    /\ last_listed = <<>>
    /\ storage_call = NoStorageCall
    /\ \/ _computations = <<>> /\ computation_dicts = <<>>
       \/ _computations = ("01H1" :> 1) /\ computation_dicts = <<StoredBefore>>
    /\ upsert_thread = [t \in Threads |-> NoUpsert]

UpsertIdle ==
    /\ upsert_thread = [t \in Threads |-> NoUpsert]
    /\ computation_dicts = <<>>

(***************************************************************************)
(* The futures layer: ComputationFuture over the Result object that        *)
(* Computation.make_result_object builds from a stored state.              *)
(***************************************************************************)
\* the class NoValue, an instance of it, and the other values a Result holds
NoValueClass == [kind |-> "class", v |-> "NoValue"]
NoValueInstance == [kind |-> "instance", v |-> "NoValue"]
FutureData == [kind |-> "data", v |-> "d"]
FutureException == [kind |-> "exception", v |-> "e"]

\* no _result attribute yet
NoFutureResult == [kind |-> "unset", v |-> ""]

\* Computation classes: "declared" implements interpret_stored_raw_value and
\* inherits interpret_stored_raw_error with the two parameters they are
\* declared with, "one_arg" defines both with the one parameter they are
\* called with
FutureComputations == [a |-> "one_arg", b |-> "declared"]
FutureNames == DOMAIN FutureComputations

\* the result_state of the state engine.resolve_state returns
ResolvedStates == {ABSENT, SUCCESS, HANDLED_FAILURE}

RunComputation(name, computation) ==
    [instruction |-> "RunComputation", name |-> name, computation |-> computation]
CancelComputation(name, computation) ==
    [instruction |-> "CancelComputation", name |-> name, computation |-> computation]

\* Result.has_value: `self.value is not NoValue`, an identity test against
\* the class object
has_value(value) == value # NoValueClass

\* Computation.make_result_object: the exception raised ("" for none) and the
\* value of the Result returned
make_result_object(computation, result_state) ==
    IF result_state = ABSENT THEN [raised |-> "", value |-> NoValueInstance]
    ELSE IF computation = "declared"
        THEN [raised |-> "TypeError", value |-> NoFutureResult]
    ELSE IF result_state = SUCCESS THEN [raised |-> "", value |-> FutureData]
    ELSE [raised |-> "", value |-> FutureException]

NoFutureCall ==
    [op |-> "none", name |-> "", raised |-> "", out |-> FALSE, yielded |-> <<>>]

FutureCalled(op, name, raised, out, yielded) ==
    [op |-> op, name |-> name, raised |-> raised, out |-> out, yielded |-> yielded]

FutureUnchanged ==
    UNCHANGED <<results_vars, engine_vars, lock_vars, fn_vars, tracker_vars, storage_vars,
                job_vars, upsert_vars>>

\* ComputationFuture._ensure_result and done: the exception raised and the
\* value returned
ComputationFuture_done(self) ==
    IF self.result = NoFutureResult THEN [raised |-> "UnitiatedFuture", out |-> FALSE]
    ELSE [raised |-> "", out |-> has_value(self.result)]

\* ComputationFuture.resolve: the exception raised and the instructions
\* yielded
ComputationFuture_resolve(self) ==
    IF self.pending_cancel
        THEN [raised |-> "", yielded |-> <<CancelComputation(self.name, self.computation)>>]
    ELSE IF ComputationFuture_done(self).raised # ""
        THEN [raised |-> ComputationFuture_done(self).raised, yielded |-> <<>>]
    ELSE IF ~ComputationFuture_done(self).out
        THEN [raised |-> "", yielded |-> <<RunComputation(self.name, self.computation)>>]
    ELSE [raised |-> "", yielded |-> <<>>]

\* future.initialise_value(engine), with the state the engine resolves
InitialiseValue(name, result_state) ==
    LET made == make_result_object(future[name].computation, result_state) IN
    /\ future_call.op = "none"
    /\ IF made.raised # ""
         THEN UNCHANGED <<future, state_resolved>>
         ELSE /\ future' = [future EXCEPT ![name].result = made.value]
              /\ state_resolved' = [state_resolved EXCEPT ![name] = result_state]
    /\ future_call' = FutureCalled("initialise_value", name, made.raised, FALSE, <<>>)
    /\ FutureUnchanged

\* future.cancel()
FutureCancel(name) ==
    /\ future_call.op = "none"
    /\ future' = [future EXCEPT ![name].pending_cancel = TRUE]
    /\ future_call' = FutureCalled("cancel", name, "", FALSE, <<>>)
    /\ UNCHANGED state_resolved
    /\ FutureUnchanged

\* future.done()
FutureDone(name) ==
    /\ future_call.op = "none"
    /\ future_call' = FutureCalled("done", name, ComputationFuture_done(future[name]).raised,
                                   ComputationFuture_done(future[name]).out, <<>>)
    /\ UNCHANGED <<future, state_resolved>>
    /\ FutureUnchanged

\* list(future.resolve())
FutureResolve(name) ==
    /\ future_call.op = "none"
    /\ future_call' = FutureCalled("resolve", name,
                                   ComputationFuture_resolve(future[name]).raised, FALSE,
                                   ComputationFuture_resolve(future[name]).yielded)
    /\ UNCHANGED <<future, state_resolved>>
    /\ FutureUnchanged

\* the caller is done with what the call returned
FutureReturn ==
    /\ future_call.op # "none"
    /\ future_call' = NoFutureCall
    /\ UNCHANGED <<future, state_resolved>>
    /\ FutureUnchanged

FutureNext ==
    \/ FutureReturn
    \/ future_call.op = "none" /\ \E name \in FutureNames, result_state \in ResolvedStates :
          InitialiseValue(name, result_state)
    \/ future_call.op = "none" /\ \E name \in FutureNames : FutureCancel(name)
    \/ future_call.op = "none" /\ \E name \in FutureNames : FutureDone(name)
    \/ future_call.op = "none" /\ \E name \in FutureNames : FutureResolve(name)

\* computation.future(name) for each computation: ComputationFuture.__init__
FutureInit ==
    /\ future = [name \in FutureNames |->
                    [name |-> name, computation |-> FutureComputations[name],
                     pending_cancel |-> FALSE, result |-> NoFutureResult]]
    /\ state_resolved = [name \in FutureNames |-> ""]
    /\ future_call = NoFutureCall

FutureIdle ==
    /\ future = <<>>
    /\ state_resolved = <<>>
    /\ future_call = NoFutureCall

(***************************************************************************)
(* Specifications                                                          *)
(***************************************************************************)
\* the Results machine from State.fresh()
InitResults == ResultsInit /\ EngineIdle /\ LockInit /\ FnIdle /\ TrackerIdle /\ StorageInit /\ JobIdle /\ UpsertIdle /\ FutureIdle
SpecResults == InitResults /\ [][ResultsNext]_vars

\* the Results machine from an arbitrary State
InitResultsAny == ResultsInitAny /\ EngineIdle /\ LockInit /\ FnIdle /\ TrackerIdle /\ StorageInit /\ JobIdle /\ UpsertIdle /\ FutureIdle
SpecResultsAny == InitResultsAny /\ [][ResultsNext]_vars

\* Engine.run driven by a host and re-entered by computations
InitEngine == ResultsInit /\ EngineInit /\ LockInit /\ FnIdle /\ TrackerIdle /\ StorageInit /\ JobIdle /\ UpsertIdle /\ FutureIdle
SpecEngine == InitEngine /\ [][EngineNext]_vars

\* threads calling MemoryStorage.hold_workflow_lock
InitLock == ResultsInit /\ EngineIdle /\ LockInit /\ FnIdle /\ TrackerIdle /\ StorageInit /\ JobIdle /\ UpsertIdle /\ FutureIdle
SpecLock == InitLock /\ [][LockNext]_vars

\* threads calling MemoryStorage.hold_workflow_lock again from inside its scope
InitNested == ResultsInit /\ EngineIdle /\ NestedInit /\ FnIdle /\ TrackerIdle /\ StorageInit /\ JobIdle /\ UpsertIdle /\ FutureIdle
SpecNested == InitNested /\ [][NestedNext]_vars

\* threads calling MemoryStorage.upsert_computations at the same time
InitUpsert == ResultsInit /\ EngineIdle /\ LockInit /\ FnIdle /\ TrackerIdle /\ JobIdle /\ UpsertInit /\ FutureIdle
SpecUpsert == InitUpsert /\ [][UpsertNext]_vars

\* calls on the ComputationFuture objects of two computations
InitFuture == ResultsInit /\ EngineIdle /\ LockInit /\ FnIdle /\ TrackerIdle /\ StorageInit /\ JobIdle /\ UpsertIdle /\ FutureInit
SpecFuture == InitFuture /\ [][FutureNext]_vars

\* clone and merge applied to a stored computation
InitFn == ResultsInit /\ EngineIdle /\ LockInit /\ FnInit /\ TrackerIdle /\ StorageInit /\ JobIdle /\ UpsertIdle /\ FutureIdle
SpecFn == InitFn /\ [][FnNext]_vars

\* calls on a JobTracker and on the statuses it hands out
InitTracker == ResultsInit /\ EngineIdle /\ LockInit /\ FnIdle /\ TrackerInit /\ StorageInit /\ JobIdle /\ UpsertIdle /\ FutureIdle
SpecTracker == InitTracker /\ [][TrackerNext]_vars

\* calls on a MemoryStorage
InitStorage == ResultsInit /\ EngineIdle /\ LockInit /\ FnIdle /\ TrackerIdle /\ StorageInit /\ JobIdle /\ UpsertIdle /\ FutureIdle
SpecStorage == InitStorage /\ [][StorageNext]_vars

\* the properties of a Job read, and paths made from names
InitJob == ResultsInit /\ EngineIdle /\ LockInit /\ FnIdle /\ TrackerIdle /\ StorageInit /\ JobInit /\ UpsertIdle /\ FutureIdle
SpecJob == InitJob /\ [][JobNext]_vars

(***************************************************************************)
(* Properties                                                              *)
(***************************************************************************)

\* C1: whenever execute raised during an Engine.run call, the call returned
\* a Job (nothing propagated) whose state is STOPPED / UNHANDLED_FAILURE with
\* the error written by the serializer selected from the computation, whose
\* exception is not None, and which is the latest execution of the status of
\* job_path.
C1_ExecuteFailureBecomesJob ==
    last_run.execute_raised # <<>> =>
        /\ last_run.outcome = "returned"
        /\ LET job == last_run.job[1]
               p == path(last_run.job_path)
               serializer == IF last_run.computation \in {"ser", "both"}
                                 THEN "custom" ELSE "simple"
           IN /\ job.state.execution_state = STOPPED
              /\ job.state.result_state = UNHANDLED_FAILURE
              /\ job.result.state.error =
                     ErrorRaw(serializer, last_run.execute_raised[1])
              /\ exception(job) # NoException
              /\ latest_execution(added_jobs[p]) = <<job>>

StartsWith(q, p) == Len(q) >= Len(p) /\ SubSeq(q, 1, Len(p)) = p

\* C7: when the execute of a child run through the executor raised, the
\* executor call returned the child's Job in UNHANDLED_FAILURE with an
\* exception, the parent's execute is running on with no exception in flight,
\* no status outside the child's subtree gained an execution; and a parent
\* whose child failed and that returned a Result has exactly that Result as
\* its post-snapshot.
C7_ChildFailureContained ==
    /\ (last_run.depth > 0 /\ last_run.execute_raised # <<>>) =>
          /\ last_run.outcome = "returned"
          /\ last_run.job[1].state.result_state = UNHANDLED_FAILURE
          /\ exception(last_run.job[1]) # NoException
          /\ stack[last_run.depth].pc = "executing"
          /\ \A q \in DOMAIN last_run.added_after :
                \/ StartsWith(q, path(last_run.job_path))
                \/ last_run.added_after[q] =
                      IF q \in DOMAIN last_run.added_before
                          THEN last_run.added_before[q] ELSE 0
    /\ (last_run.child_failed /\ last_run.execute_returned # <<>>) =>
          /\ last_run.outcome = "returned"
          /\ last_run.job[1].result = last_run.execute_returned[1]

\* C8: no Engine.run call ends by propagating the error resolver's exception:
\* when the resolver raises, for the pre-snapshot or for the post-snapshot,
\* the call still returns a Job, in UNHANDLED_FAILURE.
C8_ResolverFailureConverted ==
    last_run.outcome # "raised"

\* C3: the Result of every Results method has the (error, execution_state,
\* result_state) of its row of the transition table, whatever the state it
\* was built on; no_change keeps the three of that state.
C3_TransitionTable ==
    last_call.method # "none" =>
        LET got == <<result.state.error, result.state.execution_state,
                     result.state.result_state>>
            m == last_call.method
        IN got =
            CASE m = "pending" -> <<NoError, PENDING, ABSENT>>
              [] m = "progressing" -> <<NoError, PROGRESSING, ABSENT>>
              [] m = "paused" -> <<NoError, PAUSED, ABSENT>>
              [] m = "cancelling" -> <<NoError, CANCELLING, ABSENT>>
              [] m = "success" -> <<NoError, STOPPED, SUCCESS>>
              [] m = "cancelled" -> <<NoError, STOPPED, CANCELLED>>
              [] m = "handled_failure" -> <<last_call.error, STOPPED, HANDLED_FAILURE>>
              [] m = "unhandled_failure" ->
                    <<[kind |-> "raw", format_code |-> last_call.exception_serializer,
                       serialized |-> last_call.exc], STOPPED, UNHANDLED_FAILURE>>
              [] m = "no_change" ->
                    <<last_call.on.error, last_call.on.execution_state,
                      last_call.on.result_state>>

\* C3 witness: success built on a state that is a failure carrying an error
C3_Witness ==
    /\ last_call.method = "success"
    /\ last_call.on.result_state = UNHANDLED_FAILURE
    /\ last_call.on.execution_state = PROGRESSING
    /\ last_call.on.error # NoError
    /\ result.state.error = NoError

Consistent(state) == state.result_state # ABSENT => state.execution_state = STOPPED

\* C4: from State.fresh(), through any sequence of Results calls and merges,
\* every state reached that has a result_state other than ABSENT has
\* execution_state STOPPED.
C4_ResultImpliesStopped ==
    /\ Consistent(original_state)
    /\ Consistent(stored_info.state)
    /\ last_call.method # "none" => Consistent(result.state)

\* C4 witness: a failure and a due_at hint merged into storage
C4_Witness ==
    /\ last_call.method = "none"
    /\ stored_info.state.result_state = UNHANDLED_FAILURE
    /\ stored_info.state.execution_state = STOPPED
    /\ stored_info.state.due_at = Instant(1)

\* C2: no two threads are inside the guarded scope of the same identifier.
C2_MutualExclusion ==
    \A t \in Threads, u \in Threads :
        (t # u /\ thread_pc[t] = "body" /\ thread_pc[u] = "body")
            => thread_ident[t] # thread_ident[u]

\* C9: a lock is locked only by a thread that is inside the scope it entered
\* with that lock, so a holder that left by an exception left nothing
\* locked; and that holder's call ended with the exception of its body.
C9_FailedHolderReleases ==
    /\ \A l \in LockObjects :
          locked(l) => /\ thread_pc[lock_owner[l]] = "body"
                       /\ thread_lock[lock_owner[l]] = l
    /\ \A t \in Threads :
          thread_outcome[t].from = "body" =>
              /\ thread_outcome[t].kind = "raised"
              /\ thread_outcome[t].exc \in BodyExceptions
              /\ thread_pc[t] = "idle"

\* C9 witness: a holder failed and another thread is inside the scope with
\* the very lock the failed holder had
C9_Witness ==
    \E t \in Threads, u \in Threads :
        /\ t # u
        /\ thread_outcome[t] = Raised("boom", "body")
        /\ thread_pc[t] = "idle"
        /\ thread_pc[u] = "body"
        /\ thread_ident[u] = thread_ident[t]
        /\ thread_lock[u] = thread_lock[t]
        /\ holders_at_call[u] = {}

\* C10: a thread that called hold_workflow_lock(w) while other threads were
\* inside the scope of w is not inside its own scope before all of them
\* have left.
C10_BlockedUntilHolderLeaves ==
    \A t \in Threads : thread_pc[t] = "body" => holders_at_call[t] = {}

\* the hint a Result of no_change carries: the caller's when one is passed,
\* else the state's when that is not null, else NotGiven
CarriedHint(passed, held) ==
    IF passed # NotGiven THEN passed ELSE IF held # Null THEN held ELSE NotGiven

\* C14: for due_at and schedule_next_latest_at alike, the Result of no_change
\* carries the caller's value when one is passed (null included), the state's
\* value when none is passed and the state's is not null (a zero-length
\* duration included), and NotGiven when none is passed and the state's is
\* null.
C14_NoChangeCarriesHints ==
    last_call.method = "no_change" =>
        /\ result.due_at = CarriedHint(last_call.due_at, last_call.on.due_at)
        /\ result.schedule_next_latest_at =
              CarriedHint(last_call.schedule_next_latest_at,
                          last_call.on.schedule_next_latest_at)

\* C15: every Results method leaves created_at, due_at and
\* schedule_next_latest_at of the state as they were in the original state,
\* and every method but no_change returns the caller's two hints as passed.
C15_HintsPassThrough ==
    last_call.method # "none" =>
        /\ result.state.created_at = last_call.on.created_at
        /\ result.state.due_at = last_call.on.due_at
        /\ result.state.schedule_next_latest_at = last_call.on.schedule_next_latest_at
        /\ last_call.method # "no_change" =>
              /\ result.due_at = last_call.due_at
              /\ result.schedule_next_latest_at = last_call.schedule_next_latest_at

\* C15 witness: pending without hints on a state created at 1 that holds
\* both hints
C15_Witness ==
    /\ last_call.method = "pending"
    /\ last_call.on.created_at = 1
    /\ last_call.on.due_at = Instant(1)
    /\ last_call.on.schedule_next_latest_at = Instant(1)
    /\ last_call.due_at = NotGiven
    /\ result.due_at = NotGiven
    /\ result.schedule_next_latest_at = NotGiven
    /\ result.state.due_at = Instant(1)

\* C16: the state merge returns has the created_at of the stored state and
\* error, execution_state and result_state of the result's state; with every
\* merge persisted, created_at of the stored state never differs from that of
\* the state the last merge started from.
C16_MergeKeepsCreatedAt ==
    fn_call.fn = "merge" =>
        /\ fn_out.created_at = fn_call.self.created_at
        /\ fn_out.error = fn_call.result.state.error
        /\ fn_out.execution_state = fn_call.result.state.execution_state
        /\ fn_out.result_state = fn_call.result.state.result_state
        /\ fn_stored.state = fn_out

\* C16 witness: the result was built on a state created at another time and
\* in another execution_state
C16_Witness ==
    /\ fn_call.fn = "merge"
    /\ fn_call.self.created_at = 0
    /\ fn_call.result.state.created_at = 1
    /\ fn_call.self.execution_state = PROGRESSING
    /\ fn_out.execution_state = STOPPED
    /\ fn_out.created_at = 0

\* C17: for due_at and schedule_next_latest_at alike, the merged state keeps
\* the stored value when the Result's hint is NotGiven and holds the Result's
\* hint otherwise (null included); the hints of the result's state play no
\* part.
C17_MergeHints ==
    fn_call.fn = "merge" =>
        /\ fn_out.due_at =
              IF fn_call.result.due_at = NotGiven
                  THEN fn_call.self.due_at ELSE fn_call.result.due_at
        /\ fn_out.schedule_next_latest_at =
              IF fn_call.result.schedule_next_latest_at = NotGiven
                  THEN fn_call.self.schedule_next_latest_at
                  ELSE fn_call.result.schedule_next_latest_at

\* C17 witness: an explicit null clears a stored due_at while an omitted
\* schedule_next_latest_at keeps the stored one, the result's state holding
\* other hints
C17_Witness ==
    /\ fn_call.fn = "merge"
    /\ fn_call.self.due_at = Instant(1)
    /\ fn_call.self.schedule_next_latest_at = Instant(1)
    /\ fn_call.result.due_at = Null
    /\ fn_call.result.schedule_next_latest_at = NotGiven
    /\ fn_call.result.state.due_at = Duration(0)
    /\ fn_out.due_at = Null
    /\ fn_out.schedule_next_latest_at = Instant(1)

\* C18: the State clone returns has, for each of error, execution_state,
\* result_state, due_at and schedule_next_latest_at, the value passed when
\* one is passed (null included) and the receiver's value when it is
\* omitted; its created_at is the receiver's.
C18_CloneOverrides ==
    fn_call.fn = "clone" =>
        /\ fn_out.error =
              IF fn_call.error = NotGivenError THEN fn_call.self.error ELSE fn_call.error
        /\ fn_out.execution_state =
              IF fn_call.execution_state = NotGivenEnum
                  THEN fn_call.self.execution_state ELSE fn_call.execution_state
        /\ fn_out.result_state =
              IF fn_call.result_state = NotGivenEnum
                  THEN fn_call.self.result_state ELSE fn_call.result_state
        /\ fn_out.due_at =
              IF fn_call.due_at = NotGiven THEN fn_call.self.due_at ELSE fn_call.due_at
        /\ fn_out.schedule_next_latest_at =
              IF fn_call.schedule_next_latest_at = NotGiven
                  THEN fn_call.self.schedule_next_latest_at
                  ELSE fn_call.schedule_next_latest_at
        /\ fn_out.created_at = fn_call.self.created_at
        /\ fn_stored.state = fn_call.self

\* C18 witness: error and due_at passed as null on a state that holds both,
\* execution_state passed, the rest omitted
C18_Witness ==
    /\ fn_call.fn = "clone"
    /\ fn_call.self.error # NoError
    /\ fn_call.self.due_at = Instant(1)
    /\ fn_call.self.created_at = 1
    /\ fn_call.error = NoError
    /\ fn_call.due_at = Null
    /\ fn_call.execution_state = PENDING
    /\ fn_call.result_state = NotGivenEnum
    /\ fn_call.schedule_next_latest_at = NotGiven
    /\ fn_out.error = NoError
    /\ fn_out.due_at = Null
    /\ fn_out.result_state = fn_call.self.result_state

\* C11: job_status(job_path) returns the object _added_jobs holds for the
\* path when there is one; else a new object, stored in _added_jobs: a copy
\* (same name and job_before, another object) of the start status when
\* _start_jobs has the path, a status named job_path.job_name without
\* job_before when not.  An entry of _added_jobs is never replaced, and a
\* status held in _start_jobs stays as the tracker was constructed with it.
C11_JobStatusClonesStart ==
    /\ \A k \in DOMAIN start_refs : statuses[start_refs[k]] = given_start[start_refs[k]]
    /\ \A k \in DOMAIN tracker_call.added_before :
          k \in DOMAIN added_refs /\ added_refs[k] = tracker_call.added_before[k]
    /\ tracker_call.op = "job_status" =>
          LET p == tracker_call.p
              out == tracker_call.out_id
              before == tracker_call.objs_before
          IN /\ p \in DOMAIN added_refs /\ added_refs[p] = out
             /\ IF p \in DOMAIN tracker_call.added_before
                   THEN out = tracker_call.added_before[p] /\ statuses = before
                   ELSE /\ out = Len(before) + 1
                        /\ Len(statuses) = Len(before) + 1
                        /\ IF p \in DOMAIN start_refs
                              THEN /\ out # start_refs[p]
                                   /\ statuses[out].name = statuses[start_refs[p]].name
                                   /\ statuses[out].job_before =
                                          statuses[start_refs[p]].job_before
                              ELSE statuses[out] =
                                      JobStatus(tracker_call.job_path.job_name, <<>>, <<>>)

\* C11 witness: an execution was added, through the tracker, to the status
\* of a path that _start_jobs holds with an execution of its own
C11_Witness ==
    /\ tracker_call.op = "run"
    /\ tracker_call.p \in DOMAIN start_refs
    /\ statuses[start_refs[tracker_call.p]].job_before # <<>>
    /\ Len(statuses[start_refs[tracker_call.p]].job_executions) = 1
    /\ Len(statuses[added_refs[tracker_call.p]].job_executions) = 2

\* C12: clone returns another object with the name, the job_before and the
\* executions, in order, of the original, which it leaves as it was; and
\* add_execution on one object changes no other object.
C12_CloneIsDisjoint ==
    /\ tracker_call.op = "clone" =>
          LET id == tracker_call.id
              out == tracker_call.out_id
              before == tracker_call.objs_before
          IN /\ out # id
             /\ out = Len(before) + 1
             /\ statuses[out].name = before[id].name
             /\ statuses[out].job_before = before[id].job_before
             /\ statuses[out].job_executions = before[id].job_executions
             /\ statuses[id] = before[id]
    /\ tracker_call.op = "add_execution" =>
          \A o \in 1..Len(statuses) :
              o # tracker_call.id =>
                  /\ statuses[o].job_executions = tracker_call.objs_before[o].job_executions
                  /\ latest_execution(statuses[o]) =
                         latest_execution(tracker_call.objs_before[o])

\* C12 witness: an execution added to a status that has a copy holding an
\* execution
C12_Witness ==
    /\ tracker_call.op = "add_execution"
    /\ \E o \in 1..Len(statuses) :
          /\ o # tracker_call.id
          /\ o \in Obtained
          /\ statuses[o].name = statuses[tracker_call.id].name
          /\ Len(statuses[o].job_executions) = 1
          /\ Len(statuses[tracker_call.id].job_executions) = 2
          /\ statuses[o].job_executions[1] = statuses[tracker_call.id].job_executions[1]

\* p is an initial part of q
IsPrefixOf(p, q) == Len(p) <= Len(q) /\ SubSeq(q, 1, Len(p)) = p

\* C13: a call leaves, of every status, the executions it found as the
\* initial part of the executions it has now; add_execution, made directly
\* or by Engine.run, leaves the list it found with the job appended at the
\* end; latest_execution is the last of the list, or null for an empty list.
C13_AppendOnly ==
    /\ \A i \in 1..Len(statuses) :
          latest_execution(statuses[i]) =
              IF statuses[i].job_executions = <<>> THEN <<>>
              ELSE <<statuses[i].job_executions[Len(statuses[i].job_executions)]>>
    /\ \A i \in 1..Len(tracker_call.objs_before) :
          /\ i <= Len(statuses)
          /\ IsPrefixOf(tracker_call.objs_before[i].job_executions,
                        statuses[i].job_executions)
    /\ tracker_call.op \in {"add_execution", "run"} =>
          LET id == tracker_call.id
              before == tracker_call.objs_before
              found == IF id <= Len(before) THEN before[id].job_executions
                       ELSE IF tracker_call.p \in DOMAIN start_refs
                           THEN before[start_refs[tracker_call.p]].job_executions
                       ELSE <<>>
          IN /\ statuses[id].job_executions = Append(found, tracker_call.job[1])
             /\ latest_execution(statuses[id]) = tracker_call.job

\* C13 witness: a second, different job appended to a status
C13_Witness ==
    /\ tracker_call.op = "add_execution"
    /\ Len(statuses[tracker_call.id].job_executions) = 2
    /\ statuses[tracker_call.id].job_executions[1] # tracker_call.job[1]
    /\ statuses[tracker_call.id].job_executions[2] = tracker_call.job[1]

\* C19: jobs(path, max_levels) is the merged map (the _added_jobs status for
\* a path in both) restricted to the keys k that start with path and have
\* 0 < len(k) - len(path) <= max_levels, or len(k) - len(path) > 0 when
\* max_levels is -1.
C19_JobsFilter ==
    tracker_call.op = "jobs" =>
        LET p == tracker_call.p
            all == [k \in DOMAIN start_refs \cup DOMAIN added_refs |->
                       IF k \in DOMAIN added_refs THEN added_refs[k] ELSE start_refs[k]]
            keep == {k \in DOMAIN all :
                        /\ Len(k) >= Len(p)
                        /\ SubSeq(k, 1, Len(p)) = p
                        /\ Len(k) - Len(p) > 0
                        /\ tracker_call.levels # -1 => Len(k) - Len(p) <= tracker_call.levels}
        IN /\ DOMAIN tracker_call.out_jobs = keep
           /\ \A k \in keep : tracker_call.out_jobs[k] = all[k]

\* C20: earliest_due_at and earliest_next_schedule_at return the minimum of
\* the non-null values of the statuses tracked at any path, the root path
\* included, the _added_jobs status alone counting for a path in both maps;
\* they return null exactly when no status has a non-null value.
C20_EarliestIsMinimum ==
    tracker_call.op \in {"due_at", "schedule_next_latest_at"} =>
        LET tracked == {IF k \in DOMAIN added_refs THEN added_refs[k] ELSE start_refs[k] :
                           k \in DOMAIN start_refs \cup DOMAIN added_refs}
            values == {earliest_of(statuses[id], tracker_call.field, tracker_call.base,
                                   tracker_call.gt) : id \in tracked} \ {Null}
            out == tracker_call.out_date
        IN /\ out = Null <=> values = {}
           /\ values # {} => /\ out \in values
                              /\ \A o \in values : out.v <= o.v

\* C20 witness: the start status of a path would give an earlier date than
\* the _added_jobs status of that path, and another status gives a later one
C20_Witness ==
    /\ tracker_call.op = "schedule_next_latest_at"
    /\ tracker_call.out_date = Instant(1)
    /\ tracker_call.gt = Instant(1)
    /\ \E k \in DOMAIN start_refs \cap DOMAIN added_refs :
          /\ earliest_of(statuses[start_refs[k]], "schedule_next_latest_at",
                         tracker_call.base, tracker_call.gt) = Instant(1)
          /\ earliest_of(statuses[added_refs[k]], "schedule_next_latest_at",
                         tracker_call.base, tracker_call.gt) = Instant(2)
    /\ \E k \in DOMAIN added_refs \ DOMAIN start_refs :
          earliest_of(statuses[added_refs[k]], "schedule_next_latest_at",
                      tracker_call.base, tracker_call.gt) = Instant(1)

\* C21: JobStatus.earliest_due_at(delta_base_from, must_be_greater_than), with
\* v the due_at of the latest execution's Result, returns null when v is
\* NotGiven or null; otherwise, with t = v for an instant and t =
\* delta_base_from + v for a duration, it returns null when t <
\* must_be_greater_than and t otherwise, t equal to must_be_greater_than
\* included.  earliest_next_schedule_at does the same from
\* schedule_next_latest_at.
C21_StatusEarliest ==
    tracker_call.op \in {"due_at", "schedule_next_latest_at"} =>
        \A k \in DOMAIN tracker_call.out_each :
            LET status == statuses[merged_jobs(start_refs, added_refs)[k]]
                executions == status.job_executions
                res == executions[Len(executions)].result
                v == IF tracker_call.op = "due_at" THEN res.due_at
                     ELSE res.schedule_next_latest_at
                t == IF v.kind = "duration" THEN tracker_call.base.v + v.v ELSE v.v
                out == tracker_call.out_each[k]
            IN executions # <<>> =>
                  /\ v \in {NotGiven, Null} => out = Null
                  /\ v \notin {NotGiven, Null} /\ t < tracker_call.gt.v => out = Null
                  /\ v \notin {NotGiven, Null} /\ t >= tracker_call.gt.v => out = Instant(t)

\* C21 witness: one call in which a duration resolves to exactly
\* must_be_greater_than and is returned, and an instant before it is dropped
C21_Witness ==
    /\ tracker_call.op = "due_at"
    /\ \E k \in DOMAIN tracker_call.out_each :
          LET status == statuses[merged_jobs(start_refs, added_refs)[k]]
          IN /\ status.job_executions # <<>>
             /\ latest_execution(status)[1].result.due_at = Duration(1)
             /\ tracker_call.base.v + 1 = tracker_call.gt.v
             /\ tracker_call.out_each[k] = tracker_call.gt
    /\ \E k \in DOMAIN tracker_call.out_each :
          LET status == statuses[merged_jobs(start_refs, added_refs)[k]]
          IN /\ status.job_executions # <<>>
             /\ latest_execution(status)[1].result.due_at = Instant(1)
             /\ tracker_call.out_each[k] = Null

\* C22: retrieve_workflow_information, retrieve_computations and
\* upsert_computations called with an identifier no workflow was stored under
\* fail with WorkflowNotFound and leave the storage as it was; no entry given
\* to upsert_computations is stored, and the identifier stays unknown: the
\* identifiers the storage knows are exactly those a workflow was stored
\* under.
C22_UnknownIdentifierFails ==
    /\ DOMAIN _workflows = stored_under
    /\ DOMAIN _computations \subseteq stored_under
    /\ storage_call.op \in {"retrieve_workflow_information", "retrieve_computations",
                            "upsert_computations"} =>
          LET known == storage_call.identifier \in DOMAIN storage_call.workflows_before
          IN /\ known => storage_call.raised = NoException
             /\ ~known =>
                   /\ storage_call.raised = WorkflowNotFound(storage_call.identifier)
                   /\ _workflows = storage_call.workflows_before
                   /\ _computations = storage_call.computations_before
                   /\ storage_call.identifier \notin DOMAIN _computations

\* C22 witness: upsert_computations with entries failed for an identifier
\* that was never stored, in a storage that holds another workflow
C22_Witness ==
    /\ storage_call.op = "upsert_computations"
    /\ storage_call.identifier \notin stored_under
    /\ DOMAIN storage_call.stored_infos # {}
    /\ storage_call.raised = WorkflowNotFound(storage_call.identifier)
    /\ stored_under # {}

\* C23: for a registered identifier retrieve_computations returns, for each
\* path, the StoredInfo of the most recent upsert_computations that listed
\* the path: paths an upsert does not list keep what they had and no path
\* is ever removed.  The map returned is a snapshot: the caller changing it
\* leaves the storage as it was.
C23_UpsertMergesByPath ==
    /\ \A w \in DOMAIN _computations :
          /\ w \in DOMAIN last_listed
          /\ _computations[w] = last_listed[w]
    /\ \A w \in DOMAIN last_listed : w \in DOMAIN _computations
    /\ storage_call.op = "upsert_computations" /\ storage_call.raised = NoException =>
          LET before == IF storage_call.identifier \in DOMAIN storage_call.computations_before
                            THEN storage_call.computations_before[storage_call.identifier]
                            ELSE <<>>
              after == _computations[storage_call.identifier]
          IN /\ DOMAIN after = DOMAIN before \cup DOMAIN storage_call.stored_infos
             /\ \A p \in DOMAIN after :
                   after[p] = IF p \in DOMAIN storage_call.stored_infos
                                  THEN storage_call.stored_infos[p] ELSE before[p]
    /\ storage_call.op = "retrieve_computations" /\ storage_call.raised = NoException =>
          /\ _computations = storage_call.computations_before
          /\ ~storage_call.changed =>
                storage_call.out = IF storage_call.identifier \in DOMAIN last_listed
                                       THEN last_listed[storage_call.identifier] ELSE <<>>

\* C23 witness: the map retrieved held a path kept from an earlier upsert and
\* a path overwritten by a later one (no single upsert given stores this
\* map), and the caller then changed the map
C23_Witness ==
    /\ storage_call.op = "retrieve_computations"
    /\ storage_call.changed
    /\ storage_call.identifier \in DOMAIN _computations
    /\ _computations[storage_call.identifier]
           = (<<"path", "one">> :> StoredInfo(fresh(0)) @@
              <<"path", "two">> :> StoredInfo(fresh(0)))
    /\ storage_call.out # _computations[storage_call.identifier]

\* C24: store_new_workflow returns an identifier different from every
\* identifier the storage returned before, calls for_storage once, with that
\* identifier, and leaves the information for_storage returned and no
\* computations stored under it; upsert_workflow_information and
\* upsert_computations change nothing stored under another identifier.
C24_NewWorkflowIsolated ==
    /\ storage_call.op = "store_new_workflow" =>
          /\ storage_call.out \notin storage_call.made_before
          /\ storage_call.for_storage_args = <<storage_call.out>>
          /\ retrieve_workflow_information(_workflows, _computations, storage_call.out).out
                = for_storage(storage_call.saver, storage_call.out)
          /\ retrieve_computations(_workflows, _computations, storage_call.out).raised
                = NoException
          /\ retrieve_computations(_workflows, _computations, storage_call.out).out = <<>>
    /\ storage_call.op \in {"store_new_workflow", "upsert_workflow_information",
                            "upsert_computations"} =>
          /\ \A w \in DOMAIN storage_call.workflows_before \ {storage_call.identifier} :
                /\ w \in DOMAIN _workflows
                /\ _workflows[w] = storage_call.workflows_before[w]
          /\ \A w \in DOMAIN storage_call.computations_before \ {storage_call.identifier} :
                /\ w \in DOMAIN _computations
                /\ _computations[w] = storage_call.computations_before[w]
          /\ DOMAIN _workflows \subseteq
                DOMAIN storage_call.workflows_before \cup {storage_call.identifier}
          /\ DOMAIN _computations \subseteq
                DOMAIN storage_call.computations_before \cup {storage_call.identifier}

\* C24 witness: a second workflow was stored next to one that has
\* computations
C24_Witness ==
    /\ storage_call.op = "store_new_workflow"
    /\ storage_call.made_before # {}
    /\ \E w \in DOMAIN _computations : w # storage_call.out /\ DOMAIN _computations[w] # {}

\* C25: ComputationState.exception, for every result_state and resolved
\* error: ABSENT or SUCCESS gives no exception even with an error attached;
\* CANCELLED with no error gives ComputationCancelled(identifier, path);
\* CANCELLED, HANDLED_FAILURE or UNHANDLED_FAILURE with an error gives
\* error.as_exception(identifier, path); HANDLED_FAILURE or UNHANDLED_FAILURE
\* with no error gives ComputationErrored(identifier, path,
\* error=repr(result_state)).
C25_StateException ==
    job_call.op = "state.exception" =>
        LET state == examined_job.state
            r == state.result_state
            failed == r \in {HANDLED_FAILURE, UNHANDLED_FAILURE}
            out == job_call.exception
        IN /\ r \in {ABSENT, SUCCESS} => out = NoException
           /\ r = CANCELLED /\ state.error = NoError =>
                 out = ComputationCancelled(state.identifier, state.path)
           /\ (r = CANCELLED \/ failed) /\ state.error # NoError =>
                 out = as_exception(state.error, state.identifier, state.path)
           /\ failed /\ state.error = NoError =>
                 out = ComputationErrored(state.identifier, state.path, repr(r))

\* C25 witness: the exception of a SUCCESS state that has an error attached
\* was read
C25_Witness ==
    /\ job_call.op = "state.exception"
    /\ examined_job.state.result_state = SUCCESS
    /\ examined_job.state.error = Error("custom", "boom")
    /\ job_call.exception = NoException

ValidName(name) ==
    /\ name # <<>>
    /\ \A i \in 1..Len(name) : name[i] \in {"a", "Z", "0", "_", "-"}

\* C30: constructing a JobPath (an ExternalInputPath) succeeds iff the name is
\* non-empty and has only ASCII letters, digits, underscore and hyphen, and
\* fails with InvalidJobName (InvalidExternalInputName) for every other name;
\* ComputationState.job_path(name) validates the same way and gives a JobPath
\* whose prefix is the state's path, its path being the state's path
\* followed by name.
C30_NameValidation ==
    /\ job_call.op \in {"JobPath", "job_path"} =>
          /\ ValidName(job_call.name) =>
                /\ job_call.raised = NoException
                /\ job_call.out.job_name = job_call.name
                /\ job_call.out.prefix = examined_job.state.path
                /\ job_call.out.identifier = examined_job.state.identifier
                /\ path(job_call.out) = examined_job.state.path \o <<job_call.name>>
          /\ ~ValidName(job_call.name) =>
                /\ job_call.raised = InvalidJobName(job_call.name)
                /\ job_call.out = <<>>
    /\ job_call.op = "ExternalInputPath" =>
          /\ ValidName(job_call.name) =>
                /\ job_call.raised = NoException
                /\ job_call.out.external_input_name = job_call.name
          /\ ~ValidName(job_call.name) =>
                /\ job_call.raised = InvalidExternalInputName(job_call.name)
                /\ job_call.out = <<>>

\* C30 witness: job_path on a state below the root refused a name of valid
\* characters that ends in a newline
C30_Witness ==
    /\ job_call.op = "job_path"
    /\ examined_job.state.path # <<>>
    /\ job_call.name = <<"a", "NEWLINE">>
    /\ job_call.raised = InvalidJobName(job_call.name)

\* C27: from State.fresh() and through any sequence of Results methods (the
\* serializer returning an error), the state's error is non-null exactly when
\* result_state is HANDLED_FAILURE or UNHANDLED_FAILURE, and every transition
\* to pending, progressing, paused, cancelling, success or cancelled clears
\* an error stored before.
C27_ErrorPresence ==
    LET present(state) ==
            state.error # NoError <=>
                state.result_state \in {HANDLED_FAILURE, UNHANDLED_FAILURE}
    IN /\ present(original_state)
       /\ present(stored_info.state)
       /\ last_call.method # "none" => present(result.state)
       /\ last_call.method \in {"pending", "progressing", "paused", "cancelling",
                                 "success", "cancelled"} =>
             result.state.error = NoError

\* C27 witness: cancelled on a state that held the error of an unhandled
\* failure
C27_Witness ==
    /\ last_call.method = "cancelled"
    /\ last_call.on.result_state = UNHANDLED_FAILURE
    /\ last_call.on.error # NoError
    /\ result.state.error = NoError
    /\ result.state.result_state = CANCELLED

\* C28: the executor called with a JobPath and an ExternalInputResolver, or
\* with an ExternalInputPath and a Computation, fails with a RuntimeError
\* without calling engine.run, engine.external_input or resolve and without
\* adding a status or an execution to the job tracker; with matching kinds it
\* delegates to engine.run, or to engine.external_input.
C28_ExecutorKinds ==
    executor_call.branch # "none" =>
        LET p == executor_call.path
            job_path == "job_name" \in DOMAIN p
            input_path == "external_input_name" \in DOMAIN p
            resolver == executor_call.intention \in {"input_ready", "input_fails"}
            mismatch == (job_path /\ resolver) \/ (input_path /\ ~resolver)
        IN /\ mismatch =>
                 /\ executor_call.raised \in {ResolverWithJobPath, ComputationWithInputPath}
                 /\ executor_call.run_calls = 0
                 /\ executor_call.external_input_calls = 0
                 /\ executor_call.resolve_calls = 0
                 /\ added_jobs = executor_call.added_before
                 /\ start_jobs = executor_call.start_before
                 /\ runs_started = executor_call.runs_before
                 /\ stack[executor_call.depth].pc = "child_raised"
                 /\ stack[executor_call.depth].pending_exc = executor_call.raised
           /\ job_path /\ ~resolver =>
                 /\ executor_call.branch = "run"
                 /\ executor_call.run_calls = 1
                 /\ executor_call.external_input_calls = 0
                 /\ path(p) \in DOMAIN added_jobs
           /\ input_path /\ resolver =>
                 /\ executor_call.branch = "external_input"
                 /\ executor_call.run_calls = 0
                 /\ executor_call.external_input_calls = 1

\* C28 witness: inside a child's execute, with statuses tracked, the executor
\* refused a resolver given with a job path
C28_Witness ==
    /\ executor_call.raised = ResolverWithJobPath
    /\ executor_call.depth = 2
    /\ DOMAIN added_jobs # {}
    /\ added_jobs = executor_call.added_before

\* C29: Engine.external_input returns the value of resolver.resolve(), called
\* once, and changes no engine or tracker state; an exception resolve raises
\* is raised inside the calling execute, and a run whose execute does not
\* handle it ends in UNHANDLED_FAILURE and does not raise.
C29_ExternalInput ==
    /\ executor_call.branch = "external_input" =>
          /\ executor_call.resolve_calls = 1
          /\ executor_call.intention = "input_ready" =>
                executor_call.out = "data" /\ executor_call.raised = ""
          /\ executor_call.intention = "input_fails" =>
                /\ executor_call.raised = ResolveException
                /\ stack[executor_call.depth].pc = "child_raised"
                /\ stack[executor_call.depth].pending_exc = ResolveException
          /\ added_jobs = executor_call.added_before
          /\ start_jobs = executor_call.start_before
          /\ runs_started = executor_call.runs_before
          /\ Len(stack) = executor_call.depth
    /\ last_run.execute_raised = <<ResolveException>> =>
          /\ last_run.outcome = "returned"
          /\ last_run.job[1].state.result_state = UNHANDLED_FAILURE

\* the next step of a thread that is inside hold_workflow_lock
StepOfCall(t) ==
    \/ CheckPresent(t)
    \/ CreateLock(t)
    \/ LookupLock(t)
    \/ AcquireLock(t)
    \/ BodyReturns(t)
    \/ GetLock(t)
    \/ CheckLocked(t)
    \/ DeleteLock(t)

\* C31: a thread inside hold_workflow_lock can always take its next step,
\* except at the acquisition of the lock (line 106), and there it waits only
\* while another thread is inside the scope of the same identifier with that
\* very lock; a holder of a different identifier never keeps it waiting.
C31_IdentifiersIndependent ==
    \A t \in Threads :
        /\ (thread_pc[t] # "idle" /\ ~ENABLED StepOfCall(t)) => thread_pc[t] = "acquire"
        /\ (thread_pc[t] = "acquire" /\ ~ENABLED AcquireLock(t)) =>
              \E u \in InScope(thread_ident[t]) \ {t} : lock_owner[thread_lock[t]] = u

\* C31 witness: one thread is inside the scope of w1 while another is inside
\* the scope of w2, each with the lock of its own identifier
C31_Witness ==
    \E t \in Threads, u \in Threads :
        /\ thread_pc[t] = "body" /\ thread_ident[t] = "w1"
        /\ thread_pc[u] = "body" /\ thread_ident[u] = "w2"
        /\ thread_lock[t] # thread_lock[u]

\* C38: no call of hold_workflow_lock ends with an exception of its own: an
\* exception that ends a call is the one the caller's body raised.
C38_NeverFailsOnItsOwn ==
    \A t \in Threads :
        thread_outcome[t].kind = "raised" => thread_outcome[t].from = "body"

\* C32: a thread that is inside the scope of hold_workflow_lock(w) and calls
\* hold_workflow_lock(w) from there is never inside the scope of the inner
\* call.
C32_NotReentrant ==
    \A t \in Threads :
        (thread_pc[t] = "body" /\ thread_pc[Inner(t)] = "body")
            => thread_ident[Inner(t)] # thread_ident[t]

\* the calls of upsert_computations made so far have all ended
UpsertsEnded == \A t \in Threads : upsert_thread[t].pc \in {"idle", "returned", "raised"}

\* the threads whose call for identifier w returned
Upserted(w) ==
    {t \in Threads : upsert_thread[t].pc = "returned" /\ upsert_thread[t].identifier = w}

\* C37: when calls of upsert_computations by different threads for the same
\* registered identifier, with path sets disjoint from each other, have all
\* returned, retrieve_computations holds every entry of every call, whether
\* or not the identifier had computations before.
C37_ConcurrentUpsertsKept ==
    \A w \in DOMAIN _workflows :
        (/\ UpsertsEnded
         /\ \A t \in Upserted(w), u \in Upserted(w) :
               t # u => DOMAIN upsert_thread[t].stored_infos
                          \cap DOMAIN upsert_thread[u].stored_infos = {})
        => LET out == retrieve_computations(_workflows,
                          Dereferenced(_computations, computation_dicts), w).out
           IN \A t \in Upserted(w) :
                 \A p \in DOMAIN upsert_thread[t].stored_infos :
                    p \in DOMAIN out /\ out[p] = upsert_thread[t].stored_infos[p]

\* the Engine.run call summarised in last_run is the last thing that changed
\* the tracker: no later call has started or finished
JustFinished == last_run.outcome # "none" /\ Len(stack) = last_run.depth

\* the executions of the status at path q, none when there is no status
ExecutionsAt(q) == IF q \in DOMAIN added_jobs THEN added_jobs[q].job_executions ELSE <<>>
CountAt(counts, q) == IF q \in DOMAIN counts THEN counts[q] ELSE 0

\* C33: a call of Engine.run with override_execute not True that returns has
\* appended exactly one execution to the status of job_path, the Job it
\* returned; and while a call is inside execute, nothing has been appended to
\* the status of its job_path since the call was made, so the executions of
\* the children it runs are all appended before its own.
C33_OneExecutionPostOrder ==
    /\ (JustFinished /\ last_run.outcome = "returned"
            /\ last_run.override_execute # OverrideTrue) =>
          LET p == path(last_run.job_path) IN
          /\ Len(ExecutionsAt(p)) = CountAt(last_run.added_before, p) + 1
          /\ latest_execution(added_jobs[p]) = last_run.job
    /\ \A i \in 1..Len(stack) :
          LET p == path(stack[i].job_path) IN
          Len(ExecutionsAt(p)) = CountAt(stack[i].added_before, p)

\* C33 witness: a run has returned whose execute ran a child that returned:
\* the child's status has one execution more than when the run was made, and
\* so has the run's own status
C33_Witness ==
    /\ JustFinished
    /\ last_run.outcome = "returned"
    /\ last_run.depth = 0
    /\ last_run.override_execute # OverrideTrue
    /\ LET p == path(last_run.job_path)
           child == Append(p, "a")
       IN /\ Len(ExecutionsAt(child)) = CountAt(last_run.added_before, child) + 1
          /\ Len(ExecutionsAt(p)) = CountAt(last_run.added_before, p) + 1

\* the job_path of the Engine.run call that starts or ends in a step
PathOfStep ==
    IF Len(stack') > Len(stack) THEN {path(stack'[Len(stack')].job_path)}
    ELSE IF Len(stack') < Len(stack) THEN {path(stack[Len(stack)].job_path)}
    ELSE IF last_run' # last_run THEN {path(last_run'.job_path)}
    ELSE {}

\* C34: a step of Engine.run changes the tracker at the job_path of the call
\* and nowhere else: _start_jobs stays as it is, no status leaves
\* _added_jobs, and a status that is added to _added_jobs or changes is the
\* one at the path of the call that starts or ends in that step, whatever
\* the execute returned.
C34_NoFanOut ==
    [][/\ start_jobs' = start_jobs
       /\ DOMAIN added_jobs \subseteq DOMAIN added_jobs'
       /\ \A q \in DOMAIN added_jobs' :
             (q \notin DOMAIN added_jobs \/ added_jobs'[q] # added_jobs[q])
                 => q \in PathOfStep]_vars

\* C34 witness: a run of job "a" has returned cancelled without running its
\* child; storage holds a status for the child and for job "b", and the
\* tracker has added neither
C34_Witness ==
    /\ JustFinished
    /\ last_run.depth = 0
    /\ last_run.outcome = "returned"
    /\ last_run.job[1].state.result_state = CANCELLED
    /\ path(last_run.job_path) = <<"a">>
    /\ {<<"a", "a">>, <<"b">>} \subseteq DOMAIN start_jobs
    /\ DOMAIN added_jobs = {<<"a">>}

\* job is the snapshot Engine.run makes of the status at path p before it
\* executes: the result of job_before, or a PENDING / ABSENT state without
\* error when job_before is None; and its state is that result's state
PreSnapshot(job, p) ==
    LET before == added_jobs[p].job_before IN
    /\ job.state.original_state = job.result.state
    /\ job.state.path = p
    /\ IF before = <<>>
         THEN /\ job.result.state.error = NoError
              /\ job.result.state.execution_state = PENDING
              /\ job.result.state.result_state = ABSENT
         ELSE job.result = before[1].result

\* C35: the state every Engine.run call passes to execute, and the Job that
\* a call with override_execute=True returns, is the snapshot of the
\* status's job_before (a PENDING / ABSENT state when job_before is None),
\* however many executions the status has by then.
C35_PreStateFromJobBefore ==
    /\ \A i \in 1..Len(stack) :
          PreSnapshot(stack[i].job, path(stack[i].job_path))
    /\ (JustFinished /\ last_run.pre # <<>>) =>
          PreSnapshot(last_run.pre[1], path(last_run.job_path))
    /\ (JustFinished /\ last_run.outcome = "returned"
            /\ last_run.override_execute = OverrideTrue) =>
          PreSnapshot(last_run.job[1], path(last_run.job_path))

\* C35 witness: the second run of a path has returned; the first run's
\* execution ended in SUCCESS, job_before holds a failure, and the state the
\* second run passed to execute is the failure's
C35_Witness ==
    /\ JustFinished
    /\ last_run.outcome = "returned"
    /\ last_run.override_execute # OverrideTrue
    /\ LET p == path(last_run.job_path) IN
       /\ Len(ExecutionsAt(p)) = 2
       /\ added_jobs[p].job_before # <<>>
       /\ ExecutionsAt(p)[1].state.result_state = SUCCESS
       /\ last_run.pre[1].state.result_state = HANDLED_FAILURE

\* the hint the Result of a job carries for a date getter
HintOf(job, field) ==
    IF field = "due_at" THEN job.result.due_at ELSE job.result.schedule_next_latest_at

\* a hint that is an instant or a timedelta
IsGiven(hint) == hint.kind \notin {"NotGiven", "None"}

\* C36: only the latest execution feeds the scheduling hints of a JobStatus:
\* earliest_due_at and earliest_next_schedule_at give null for a status with
\* no executions, whatever its job_before carries, and for a status whose
\* latest execution has the hint NotGiven or null, whatever the executions
\* before it carry.
C36_OnlyLatestExecutionFeeds ==
    tracker_call.op \in {"due_at", "schedule_next_latest_at"} =>
        \A k \in DOMAIN tracker_call.out_each :
            LET status == statuses[merged_jobs(start_refs, added_refs)[k]]
                executions == status.job_executions
            IN (\/ executions = <<>>
                \/ ~IsGiven(HintOf(executions[Len(executions)], tracker_call.op)))
                   => tracker_call.out_each[k] = Null

\* the date getters were asked, and the status they saw at path k has an
\* execution added by add_execution whose hint is `kind` after an execution
\* whose hint is a date the getter would have returned
AppendedAfterHint(k, kind) ==
    /\ tracker_call.op = "due_at"
    /\ k \in DOMAIN added_refs \cap DOMAIN tracker_call.out_each
    /\ LET executions == statuses[added_refs[k]].job_executions
           n == Len(executions)
       IN /\ n >= 2
          /\ HintOf(executions[n], "due_at").kind = kind
          /\ IsGiven(HintOf(executions[n - 1], "due_at"))
          /\ earliest_of(JobStatus("", <<>>, <<executions[n - 1]>>), "due_at",
                         tracker_call.base, tracker_call.gt) # Null
          /\ tracker_call.out_each[k] = Null

\* C36 witness: the latest execution of a status was appended with a due_at
\* of null after an execution with a due_at the getter would return
C36_Witness == \E k \in DOMAIN added_refs : AppendedAfterHint(k, "None")

\* the same with a latest execution whose Result omits due_at
C36_NotGivenAfterHint == \E k \in DOMAIN added_refs : AppendedAfterHint(k, "NotGiven")

\* the getters were asked about a status that has not run and whose
\* job_before carries both hints
C36_NoExecutions ==
    /\ tracker_call.op \in {"due_at", "schedule_next_latest_at"}
    /\ \E k \in DOMAIN tracker_call.out_each :
          LET status == statuses[merged_jobs(start_refs, added_refs)[k]]
          IN /\ status.job_executions = <<>>
             /\ status.job_before # <<>>
             /\ IsGiven(HintOf(status.job_before[1], tracker_call.op))
             /\ tracker_call.out_each[k] = Null

\* the step is a whole Engine.run call with override_execute=True
GetStep ==
    /\ runs_started' = runs_started + 1
    /\ Len(stack') = Len(stack)
    /\ last_run'.override_execute = OverrideTrue

C39_FreshInserted ==
    /\ JustFinished
    /\ last_run.override_execute = OverrideTrue
    /\ LET p == path(last_run.job_path) IN
       /\ p \notin DOMAIN last_run.added_before
       /\ p \notin DOMAIN start_jobs
       /\ added_jobs[p] = fresh_job_status(last_run.job_path.job_name)

\* C40: after initialise_value with a state whose result_state is ABSENT,
\* done() is false and resolve() yields exactly one RunComputation(name,
\* computation) unless cancel() was called; after cancel(), resolve() yields
\* exactly one CancelComputation whatever the state; for a state that has a
\* result, and no cancel, resolve() yields nothing.
C40_FutureInstructions ==
    LET name == future_call.name IN
    /\ (future_call.op = "done" /\ state_resolved[name] = ABSENT) =>
          future_call.raised = "" /\ ~future_call.out
    /\ future_call.op = "resolve" =>
          IF future[name].pending_cancel
              THEN /\ future_call.raised = ""
                   /\ future_call.yielded =
                          <<CancelComputation(name, FutureComputations[name])>>
          ELSE IF state_resolved[name] = ABSENT
              THEN /\ future_call.raised = ""
                   /\ future_call.yielded =
                          <<RunComputation(name, FutureComputations[name])>>
          ELSE state_resolved[name] # "" =>
                   future_call.raised = "" /\ future_call.yielded = <<>>

\* what holds of the futures: cancel decides alone, and without it resolve()
\* yields nothing for any state initialise_value stored a Result for
C40_AsWritten ==
    LET name == future_call.name IN
    /\ (future_call.op = "done" /\ state_resolved[name] # "") =>
          future_call.raised = "" /\ future_call.out
    /\ future_call.op = "resolve" =>
          IF future[name].pending_cancel
              THEN future_call.yielded =
                       <<CancelComputation(name, FutureComputations[name])>>
          ELSE future_call.yielded = <<>>

====
